---- MODULE Spec2Model ----
(***************************************************************************)
(* Table operations of the POS backend: moveTable, moveItems and moveKOT   *)
(* of src/src/controllers/tableOperations.js, over the stored relations    *)
(* they read and write (orders, notifications, order_customization_        *)
(* deliveries and the satellite relations).                                *)
(*                                                                         *)
(* A stored row is a record; a relation is a function from row id to row.  *)
(* A JSON item map is a function from item id to an item entry, and the    *)
(* customizations array of an entry is a sequence of lines.                *)
(***************************************************************************)
EXTENDS Integers, Sequences, FiniteSets, TLC

VARIABLES
    db,     \* the stored relations
    pre,    \* the stored relations before the last operation
    last    \* the last operation: its name, arguments, path and outcome

vars == <<db, pre, last>>

----------------------------------------------------------------------------
(* Bounds of the model *)

\* largest qty of a customization line, ticket line or ledger row at the start
MaxQty == 2

----------------------------------------------------------------------------
(* Values *)

\* a missing (undefined, null or empty) table or restaurant id: falsy in JS
NoId == ""
\* a missing order id
NoOrder == 0

Restaurant == "R1"
Tables == {"T1", "T2"}
ItemIds == {"A", "B"}

EmptyMap == [x \in {} |-> x]

Min2(a, b) == IF a <= b THEN a ELSE b
Max2(a, b) == IF a >= b THEN a ELSE b

RECURSIVE SumQty(_)
\* customizations.reduce((sum, c) => sum + c.qty, 0)
SumQty(lines) ==
    IF lines = <<>> THEN 0 ELSE Head(lines).qty + SumQty(Tail(lines))

MapSeq(s, F(_)) == [i \in 1..Len(s) |-> F(s[i])]

RECURSIVE SetSum(_, _)
\* the sum of f[x] over the set S
SetSum(S, f) ==
    IF S = {} THEN 0
    ELSE LET x == CHOOSE y \in S : TRUE IN f[x] + SetSum(S \ {x}, f)

\* an item map without the key k (delete obj[k])
Without(m, k) == [x \in DOMAIN m \ {k} |-> m[x]]
\* an item map with key k set to v (obj[k] = v)
With(m, k, v) == [x \in DOMAIN m \cup {k} |-> IF x = k THEN v ELSE m[x]]

\* the character sequence of a joined list of strings with a newline between
\* neighbours: parts.join('\n')
RECURSIVE JoinNl(_)
JoinNl(parts) ==
    IF parts = <<>> THEN <<>>
    ELSE IF Len(parts) = 1 THEN Head(parts)
    ELSE Head(parts) \o <<"\n">> \o JoinNl(Tail(parts))

----------------------------------------------------------------------------
(* Queries shared by the operations *)

\* ORDER BY print_status ASC, created_at ASC: false sorts before true
DestBefore(o1, o2) ==
    \/ ~o1.printStatus /\ o2.printStatus
    \/ o1.printStatus = o2.printStatus /\ o1.createdAt < o2.createdAt

RECURSIVE SortDest(_, _)
SortDest(S, orders) ==
    IF S = {} THEN <<>>
    ELSE LET m == CHOOSE x \in S :
                    \A y \in S \ {x} : DestBefore(orders[x], orders[y])
         IN <<m>> \o SortDest(S \ {m}, orders)

\* the ids of the orders of a table
OrdersOn(d, restaurantId, tableId) ==
    {o \in DOMAIN d.orders :
        /\ d.orders[o].restaurantId = restaurantId
        /\ d.orders[o].tableId = tableId}

\* SELECT ... FROM orders WHERE restaurant_id = $1 AND table_id = $2
\*   ORDER BY print_status ASC, created_at ASC: the ids in row order
DestRows(d, restaurantId, tableId) ==
    SortDest(OrdersOn(d, restaurantId, tableId), d.orders)

\* rows.find(order => order.print_status !== true): its position, 0 if none
FirstNonPrinted(rows, orders) ==
    IF \E i \in 1..Len(rows) : ~orders[rows[i]].printStatus
    THEN CHOOSE i \in 1..Len(rows) :
            /\ ~orders[rows[i]].printStatus
            /\ \A j \in 1..(i - 1) : orders[rows[j]].printStatus
    ELSE 0

\* the active created/updated tickets of an order
IsKot(t) == t.actionType \in {"order_created", "order-updated"}
ActiveKots(d, restaurantId, orderId) ==
    {n \in DOMAIN d.tickets :
        /\ d.tickets[n].restaurantId = restaurantId
        /\ d.tickets[n].orderId = orderId
        /\ IsKot(d.tickets[n])
        /\ d.tickets[n].active}

----------------------------------------------------------------------------
(* moveTable *)

\* !oldTableId || !newTableId || !restaurantId
MoveTableMissing(data) ==
    data.oldTableId = NoId \/ data.newTableId = NoId \/ data.restaurantId = NoId

\* destRes.rows.find(order => order.print_status !== true) || destRes.rows[0]
DestTarget(rows, orders) ==
    IF FirstNonPrinted(rows, orders) > 0
    THEN rows[FirstNonPrinted(rows, orders)]
    ELSE rows[1]

\* a faulty merge, to compare with: an item of both orders gets the
\* source's lines followed by the destination's
MergedItemsSourceFirst(existingItems, sourceItems) ==
    [i \in DOMAIN existingItems \cup DOMAIN sourceItems |->
        IF i \in DOMAIN existingItems /\ i \in DOMAIN sourceItems
        THEN [existingItems[i] EXCEPT
                !.customizations = sourceItems[i].customizations \o @]
        ELSE IF i \in DOMAIN existingItems THEN existingItems[i]
        ELSE sourceItems[i]]

\* the merged item map: the destination's entries, an item of both orders
\* with the destination's lines followed by the source's
MergedItems(existingItems, sourceItems) ==
    [i \in DOMAIN existingItems \cup DOMAIN sourceItems |->
        IF i \in DOMAIN existingItems /\ i \in DOMAIN sourceItems
        THEN [existingItems[i] EXCEPT
                !.customizations = @ \o sourceItems[i].customizations]
        ELSE IF i \in DOMAIN existingItems THEN existingItems[i]
        ELSE sourceItems[i]]

\* [dest.instructions, src.instructions].filter(Boolean).join('\n')
MergedInstructions(destInstr, srcInstr) ==
    JoinNl(SelectSeq(<<destInstr, srcInstr>>, LAMBDA s : s # <<>>))

\* UPDATE orders SET json_data = {items: merged}, instructions = ... WHERE id = dest
MergeWriteDest(d, destId, srcId) ==
    [d EXCEPT !.orders[destId] =
        [@ EXCEPT
            !.items = MergedItems(d.orders[destId].items, d.orders[srcId].items),
            !.instructions = MergedInstructions(d.orders[destId].instructions,
                                                d.orders[srcId].instructions)]]

\* UPDATE notifications SET order_id = dest, table_number = new
\*   WHERE restaurant_id = r AND order_id = src AND active = true
RepointTickets(d, data, destId, srcId) ==
    [d EXCEPT !.tickets =
        [n \in DOMAIN d.tickets |->
            IF /\ d.tickets[n].restaurantId = data.restaurantId
               /\ d.tickets[n].orderId = srcId
               /\ d.tickets[n].active
            THEN [d.tickets[n] EXCEPT !.orderId = destId,
                                      !.tableNumber = data.newTableId]
            ELSE d.tickets[n]]]

\* UPDATE order_customization_deliveries SET order_id = dest WHERE order_id = src
RepointDeliveries(d, destId, srcId) ==
    [d EXCEPT !.deliveries =
        [x \in DOMAIN d.deliveries |->
            IF d.deliveries[x].orderId = srcId
            THEN [d.deliveries[x] EXCEPT !.orderId = destId]
            ELSE d.deliveries[x]]]

\* DELETE FROM orders WHERE id = $1
DeleteOrder(d, id) ==
    [d EXCEPT !.orders = [o \in DOMAIN d.orders \ {id} |-> d.orders[o]]]

\* UPDATE orders SET table_id = new WHERE id = src
RelabelOrder(d, srcId, newTableId) ==
    IF srcId \in DOMAIN d.orders
    THEN [d EXCEPT !.orders[srcId].tableId = newTableId]
    ELSE d

\* a faulty branch decision, to compare with: the print status of the
\* destination target is not looked at
MoveTableBranchUnchecked(d, data, srcPick) ==
    LET destRows == DestRows(d, data.restaurantId, data.newTableId)
        srcIds   == OrdersOn(d, data.restaurantId, data.oldTableId)
    IN IF destRows # <<>> /\ srcIds # {} THEN "merge"
       ELSE IF srcIds # {} THEN "sourceOnly" ELSE "none"

\* steps 2 and 3 of moveTable: which branch runs.  srcPick is rows[0] of the
\* source query, which has no ORDER BY.
MoveTableBranch(d, data, srcPick) ==
    LET destRows == DestRows(d, data.restaurantId, data.newTableId)
        srcIds   == OrdersOn(d, data.restaurantId, data.oldTableId)
    IN IF destRows # <<>> /\ srcIds # {}
       THEN IF ~d.orders[DestTarget(destRows, d.orders)].printStatus
            THEN "merge" ELSE "reassign"
       ELSE IF srcIds # {} THEN "sourceOnly" ELSE "none"

MoveTableOrders(d, data, srcPick) ==
    LET destRows == DestRows(d, data.restaurantId, data.newTableId)
        branch   == MoveTableBranch(d, data, srcPick)
    IN IF branch = "merge"
       THEN LET destId == DestTarget(destRows, d.orders)
                d1 == MergeWriteDest(d, destId, srcPick)
                d2 == RepointTickets(d1, data, destId, srcPick)
                d3 == RepointDeliveries(d2, destId, srcPick)
            IN DeleteOrder(d3, srcPick)
       ELSE IF branch \in {"reassign", "sourceOnly"}
       THEN RelabelOrder(d, srcPick, data.newTableId)
       ELSE d

\* the position of a table token in the order jsonb_agg(DISTINCT ...) emits
TableOrder == <<"T1", "T2">>
TableRank(t) == CHOOSE i \in 1..Len(TableOrder) : TableOrder[i] = t

RECURSIVE SortTokens(_)
SortTokens(S) ==
    IF S = {} THEN <<>>
    ELSE LET m == CHOOSE x \in S : \A y \in S : TableRank(x) <= TableRank(y)
         IN <<m>> \o SortTokens(S \ {m})

\* a faulty rewrite, to compare with: jsonb_agg without DISTINCT
ReplaceTokenKeepAll(assigned, oldTableId, newTableId) ==
    [i \in 1..Len(assigned) |->
        IF assigned[i] = oldTableId THEN newTableId ELSE assigned[i]]

\* jsonb_agg(DISTINCT CASE WHEN value = old THEN new ELSE value END)
ReplaceToken(assigned, oldTableId, newTableId) ==
    SortTokens({IF assigned[i] = oldTableId THEN newTableId ELSE assigned[i] :
                    i \in 1..Len(assigned)})

\* the rows each satellite UPDATE of step 4 matches
TicketSatRows(d, data) ==
    {n \in DOMAIN d.tickets :
        /\ d.tickets[n].restaurantId = data.restaurantId
        /\ d.tickets[n].tableNumber = data.oldTableId
        /\ d.tickets[n].active}
\* a faulty match, to compare with: the OTP rows of every table
OtpSatRowsAnyTable(d, data) ==
    {x \in DOMAIN d.otps : d.otps[x].restaurantId = data.restaurantId}

OtpSatRows(d, data) ==
    {x \in DOMAIN d.otps :
        /\ d.otps[x].restaurantId = data.restaurantId
        /\ d.otps[x].tableId = data.oldTableId}
DiscountSatRows(d, data) ==
    {x \in DOMAIN d.discounts :
        /\ d.discounts[x].restaurantId = data.restaurantId
        /\ d.discounts[x].tableNumber = data.oldTableId
        /\ d.discounts[x].isActive}
OfferSatRows(d, data) ==
    {x \in DOMAIN d.offers :
        /\ d.offers[x].restaurantId = data.restaurantId
        /\ d.offers[x].orderId = data.orderId
        /\ d.offers[x].tableId = data.oldTableId
        /\ d.offers[x].active}
CaptainSatRows(d, data) ==
    {x \in DOMAIN d.captains :
        /\ d.captains[x].restaurantId = data.restaurantId
        /\ \E i \in 1..Len(d.captains[x].assignedTables) :
                d.captains[x].assignedTables[i] = data.oldTableId}

\* step 4 of moveTable: the five satellite updates (they touch five
\* different relations, so their order does not matter)
MoveTableSatellites(d, data) ==
    [d EXCEPT
        !.tickets = [n \in DOMAIN d.tickets |->
            IF n \in TicketSatRows(d, data)
            THEN [d.tickets[n] EXCEPT !.tableNumber = data.newTableId]
            ELSE d.tickets[n]],
        !.otps = [x \in DOMAIN d.otps |->
            IF x \in OtpSatRows(d, data)
            THEN [d.otps[x] EXCEPT !.tableId = data.newTableId]
            ELSE d.otps[x]],
        !.discounts = [x \in DOMAIN d.discounts |->
            IF x \in DiscountSatRows(d, data)
            THEN [d.discounts[x] EXCEPT !.tableNumber = data.newTableId]
            ELSE d.discounts[x]],
        !.offers = [x \in DOMAIN d.offers |->
            IF x \in OfferSatRows(d, data)
            THEN [d.offers[x] EXCEPT !.tableId = data.newTableId]
            ELSE d.offers[x]],
        !.captains = [x \in DOMAIN d.captains |->
            IF x \in CaptainSatRows(d, data)
            THEN [d.captains[x] EXCEPT !.assignedTables =
                    ReplaceToken(@, data.oldTableId, data.newTableId)]
            ELSE d.captains[x]]]

\* step 7 of moveTable: the summary, counted on the state step 4 ran on
MoveTableSummary(d, data) ==
    LET n == Cardinality(TicketSatRows(d, data))
        o == Cardinality(OtpSatRows(d, data))
        s == Cardinality(DiscountSatRows(d, data))
        f == Cardinality(OfferSatRows(d, data))
        c == Cardinality(CaptainSatRows(d, data))
    IN [success |-> TRUE, message |-> "Table moved successfully",
        ordersUpdated |-> n + o + s + f + c,
        notificationsUpdated |-> n, otpUpdated |-> o, discountUpdated |-> s,
        dynamicOffersUpdated |-> f, captainsUpdated |-> c]

\* an outcome of an operation: the stored relations it leaves, whether it
\* returned or threw and with what, and the path it took
\* and what it did on the way (trace)
Outcome(d, kind, value, path, trace) ==
    [db |-> d, kind |-> kind, value |-> value, path |-> path, trace |-> trace]
Thrown(msg) == [error |-> msg]

\* moveTable(data), with srcPick the row the source query returns first
MoveTable(d, data, srcPick) ==
    IF MoveTableMissing(data)
    THEN Outcome(d, "throw", Thrown("Missing required fields"), "invalid",
                 [srcPick |-> srcPick])
    ELSE LET d1 == MoveTableOrders(d, data, srcPick)
         IN Outcome(MoveTableSatellites(d1, data), "return",
                    MoveTableSummary(d1, data),
                    MoveTableBranch(d, data, srcPick),
                    [srcPick |-> srcPick])

\* the rows the source query of moveTable can return first (NoOrder: no row)
SrcPicks(d, data) ==
    IF OrdersOn(d, data.restaurantId, data.oldTableId) = {}
    THEN {NoOrder}
    ELSE OrdersOn(d, data.restaurantId, data.oldTableId)

----------------------------------------------------------------------------
(* createOrUpdateOrder of @butler/order-engine, the order-upsert collaborator *)

\* a new order row; db.seq numbers the rows and stamps created_at
NewOrder(d, body) ==
    [d EXCEPT
        !.orders = With(d.orders, d.seq,
            [restaurantId |-> body.restaurantId, tableId |-> body.tableId,
             items |-> body.items, instructions |-> <<>>,
             printStatus |-> FALSE, createdAt |-> d.seq]),
        !.seq = d.seq + 1]

\* the order an upsert merges into; NoOrder when it creates a new row
UpsertTarget(d, body) ==
    IF body.forceNewOrder THEN NoOrder
    ELSE IF body.orderId # NoOrder /\ body.orderId \in DOMAIN d.orders
    THEN body.orderId
    ELSE LET rows == DestRows(d, body.restaurantId, body.tableId)
         IN IF FirstNonPrinted(rows, d.orders) > 0
            THEN rows[FirstNonPrinted(rows, d.orders)]
            ELSE NoOrder

\* creates a new order or merges the item map into an eligible existing one;
\* an order is created on its first item, so an empty item map creates none
Upsert(d, body) ==
    IF DOMAIN body.items = {} THEN d
    ELSE IF UpsertTarget(d, body) = NoOrder THEN NewOrder(d, body)
    ELSE [d EXCEPT !.orders[UpsertTarget(d, body)].items =
                MergedItems(@, body.items)]

----------------------------------------------------------------------------
(* moveItems *)

\* the order row of step 1: restaurant, id and table must all match
SourceOrderFound(d, data) ==
    /\ data.orderId \in DOMAIN d.orders
    /\ d.orders[data.orderId].restaurantId = data.restaurantId
    /\ d.orders[data.orderId].tableId = data.oldTableId

\* the undelivered, uncancelled ledger rows of the order (step 1)
OutstandingRows(d, orderId) ==
    {x \in DOMAIN d.deliveries :
        /\ d.deliveries[x].orderId = orderId
        /\ ~d.deliveries[x].delivered
        /\ ~d.deliveries[x].cancelled}

\* a faulty step 2, to compare with: the quantities are not verified
VerifyMovesItemsOnly(oldItems, items) ==
    IF \E i \in 1..Len(items) : items[i].itemId \notin DOMAIN oldItems
    THEN "Item not found in the order"
    ELSE ""

RECURSIVE VerifyMoves(_, _)
\* step 2: the error of the first request that fails, "" when all pass
VerifyMoves(oldItems, items) ==
    IF items = <<>> THEN ""
    ELSE IF Head(items).itemId \notin DOMAIN oldItems THEN "Item not found in the order"
    ELSE IF Head(items).quantity < 1 THEN "Quantity must be at least 1"
    ELSE VerifyMoves(oldItems, Tail(items))

\* a faulty step 3, to compare with: the quantity of a request is held
\* against the item's first line instead of the sum of its lines
IsFullTableMoveFirstLine(oldItems, items) ==
    /\ \A itemId \in DOMAIN oldItems :
            \E i \in 1..Len(items) : items[i].itemId = itemId
    /\ \A i \in 1..Len(items) :
            items[i].quantity = oldItems[items[i].itemId].customizations[1].qty

\* step 3: every item of the order is requested, and every request asks for
\* the item's total quantity
IsFullTableMove(oldItems, items) ==
    /\ \A itemId \in DOMAIN oldItems :
            \E i \in 1..Len(items) : items[i].itemId = itemId
    /\ \A i \in 1..Len(items) :
            items[i].quantity = SumQty(oldItems[items[i].itemId].customizations)

\* the entry for the new table: every line's qty overwritten by the request
NewTableEntry(item, requestedQty) ==
    [item EXCEPT !.customizations =
        MapSeq(@, LAMBDA c : [c EXCEPT !.qty = requestedQty])]

\* the entry left on the old table: every line reduced by the request,
\* clipped at zero, lines of qty 0 dropped
RemainingEntry(item, requestedQty) ==
    [item EXCEPT !.customizations =
        SelectSeq(MapSeq(@, LAMBDA c : [c EXCEPT !.qty = Max2(0, c.qty - requestedQty)]),
                  LAMBDA c : c.qty > 0)]

RECURSIVE ItemsForNewTable(_, _)
\* step 4: itemsForNewTable after all requests (a later request of the same
\* item overwrites an earlier one)
ItemsForNewTable(oldItems, items) ==
    IF items = <<>> THEN EmptyMap
    ELSE LET r == items[Len(items)]
         IN With(ItemsForNewTable(oldItems, SubSeq(items, 1, Len(items) - 1)),
                 r.itemId, NewTableEntry(oldItems[r.itemId], r.quantity))

\* one request applied to remainingItems
RemainingStep(oldItems, remaining, r) ==
    IF r.quantity >= SumQty(oldItems[r.itemId].customizations)
    THEN Without(remaining, r.itemId)
    ELSE With(remaining, r.itemId, RemainingEntry(oldItems[r.itemId], r.quantity))

RECURSIVE RemainingItems(_, _)
\* step 4: remainingItems after all requests, starting from a copy of oldItems
RemainingItems(oldItems, items) ==
    IF items = <<>> THEN oldItems
    ELSE RemainingStep(oldItems,
                       RemainingItems(oldItems, SubSeq(items, 1, Len(items) - 1)),
                       items[Len(items)])

RECURSIVE SumLedger(_, _)
\* notifDeliveries.reduce((sum, d) => sum + (d.customization_details.qty || 0), 0)
SumLedger(group, dl) ==
    IF group = <<>> THEN 0
    ELSE dl[Head(group)].details.qty + SumLedger(Tail(group), dl)

\* a faulty drain, to compare with: only the first row of a ticket gives
DrainGroupFirstRow(group, dl, q) ==
    IF group = <<>> \/ Min2(q, dl[Head(group)].details.qty) <= 0 THEN <<>>
    ELSE <<[id |-> Head(group),
            qty |-> dl[Head(group)].details.qty - Min2(q, dl[Head(group)].details.qty),
            by |-> Min2(q, dl[Head(group)].details.qty),
            notificationId |-> dl[Head(group)].notificationId,
            itemId |-> dl[Head(group)].itemId]>>

RECURSIVE DrainGroup(_, _, _)
\* the updates of one ticket's ledger rows: each row gives up to its qty
\* until q is used up
DrainGroup(group, dl, q) ==
    IF group = <<>> \/ q <= 0 THEN <<>>
    ELSE LET cur == dl[Head(group)].details.qty
             by  == Min2(q, cur)
         IN IF by > 0
            THEN <<[id |-> Head(group), qty |-> cur - by, by |-> by,
                    notificationId |-> dl[Head(group)].notificationId,
                    itemId |-> dl[Head(group)].itemId]>>
                 \o DrainGroup(Tail(group), dl, q - by)
            ELSE DrainGroup(Tail(group), dl, q)

RECURSIVE SumBy(_)
SumBy(ups) == IF ups = <<>> THEN 0 ELSE Head(ups).by + SumBy(Tail(ups))

RECURSIVE DrainNotifications(_, _, _, _, _)
\* the ledger updates of one request: the tickets in row order, each ticket's
\* rows of the item drained by min(quantity still to move, their total)
DrainNotifications(nRows, itemId, dRows, dl, remainingQtyToMove) ==
    IF nRows = <<>> THEN <<>>
    ELSE LET group == SelectSeq(dRows, LAMBDA x :
                        /\ dl[x].itemId = itemId
                        /\ dl[x].notificationId = Head(nRows))
             q   == Min2(remainingQtyToMove, SumLedger(group, dl))
             ups == DrainGroup(group, dl, q)
         IN ups \o DrainNotifications(Tail(nRows), itemId, dRows, dl,
                                      remainingQtyToMove - SumBy(ups))

RECURSIVE DeliveryUpdates(_, _, _, _)
\* step 4: deliveryUpdates of all requests, in push order; every request
\* reads the rows as fetched in step 1
DeliveryUpdates(items, nRows, dRows, dl) ==
    IF items = <<>> THEN <<>>
    ELSE DrainNotifications(nRows, Head(items).itemId, dRows, dl,
                            Head(items).quantity)
         \o DeliveryUpdates(Tail(items), nRows, dRows, dl)

\* the updates pushed for one ledger row
UpdatesOf(ups, id) == SelectSeq(ups, LAMBDA u : u.id = id)

\* step 5: the UPDATEs run concurrently (Promise.all); of several updates of
\* one row the one that commits last stays, which dWin picks
ApplyDeliveryUpdates(d, ups, dWin) ==
    [d EXCEPT !.deliveries =
        [x \in DOMAIN d.deliveries |->
            IF UpdatesOf(ups, x) = <<>> THEN d.deliveries[x]
            ELSE [d.deliveries[x] EXCEPT !.details.qty =
                    UpdatesOf(ups, x)[IF x \in DOMAIN dWin
                                      THEN (dWin[x] % Len(UpdatesOf(ups, x))) + 1
                                      ELSE Len(UpdatesOf(ups, x))].qty]]]

RECURSIVE StableSortCreated(_, _)
\* rows.sort((a, b) => new Date(a.created_at) - new Date(b.created_at)):
\* oldest first, rows of equal created_at in their row order
StableSortCreated(rows, tk) ==
    IF rows = <<>> THEN <<>>
    ELSE LET i == CHOOSE k \in 1..Len(rows) :
                    /\ \A j \in 1..Len(rows) : tk[rows[k]].createdAt <= tk[rows[j]].createdAt
                    /\ \A j \in 1..(k - 1) : tk[rows[k]].createdAt < tk[rows[j]].createdAt
         IN <<rows[i]>> \o StableSortCreated(
                SubSeq(rows, 1, i - 1) \o SubSeq(rows, i + 1, Len(rows)), tk)

\* customizations.find(c => c.isBasic === true): its position, 0 if none
BasicIndex(lines) ==
    IF \E i \in 1..Len(lines) : lines[i].isBasic
    THEN CHOOSE i \in 1..Len(lines) :
            lines[i].isBasic /\ \A j \in 1..(i - 1) : ~lines[j].isBasic
    ELSE 0

\* the qty a ticket, as fetched in step 1, offers for an item: the qty of the
\* basic line of its snapshot, 0 when the loop skips the ticket
TicketOffer(t, itemId) ==
    IF ~t.hasData THEN 0
    ELSE IF itemId \notin DOMAIN t.data THEN 0
    ELSE IF BasicIndex(t.data[itemId].customizations) = 0 THEN 0
    ELSE Max2(0, t.data[itemId].customizations[
                    BasicIndex(t.data[itemId].customizations)].qty)

RECURSIVE TicketReductions(_, _, _, _)
\* the ticket UPDATEs of one request: oldest ticket first, each gives
\* min(quantity still to move, its basic qty as fetched in step 1)
TicketReductions(sorted, itemId, tk, remainingQtyToMove) ==
    IF sorted = <<>> \/ remainingQtyToMove <= 0 THEN <<>>
    ELSE IF TicketOffer(tk[Head(sorted)], itemId) = 0
    THEN TicketReductions(Tail(sorted), itemId, tk, remainingQtyToMove)
    ELSE LET by == Min2(remainingQtyToMove, TicketOffer(tk[Head(sorted)], itemId))
         IN <<[notificationId |-> Head(sorted), itemId |-> itemId, by |-> by]>>
            \o TicketReductions(Tail(sorted), itemId, tk, remainingQtyToMove - by)

RECURSIVE TicketUpdates(_, _, _)
\* the ticket UPDATEs of all requests, in the order they are awaited
TicketUpdates(items, sorted, tk) ==
    IF items = <<>> THEN <<>>
    ELSE TicketReductions(sorted, Head(items).itemId, tk, Head(items).quantity)
         \o TicketUpdates(Tail(items), sorted, tk)

\* the line the UPDATE builds from a basic line: qty and qtyChange less $2
\* (a missing qtyChange stays null)
ReducedBasicLine(c, by) ==
    [c EXCEPT !.qty = @ - by,
              !.qtyChange = IF @ = <<>> THEN <<>> ELSE <<@[1] - by>>]

\* UPDATE notifications SET notification_data = jsonb_set(...)
\*   WHERE notification_id = $3 AND active = true: on the stored row
ApplyTicketUpdate(d, u) ==
    IF /\ u.notificationId \in DOMAIN d.tickets
       /\ d.tickets[u.notificationId].active
       /\ d.tickets[u.notificationId].hasData
       /\ u.itemId \in DOMAIN d.tickets[u.notificationId].data
    THEN [d EXCEPT !.tickets[u.notificationId].data[u.itemId].customizations =
            MapSeq(@, LAMBDA c : IF c.isBasic THEN ReducedBasicLine(c, u.by) ELSE c)]
    ELSE d

RECURSIVE ApplyTicketUpdates(_, _)
ApplyTicketUpdates(d, ups) ==
    IF ups = <<>> THEN d
    ELSE ApplyTicketUpdates(ApplyTicketUpdate(d, Head(ups)), Tail(ups))

\* NOT EXISTS (a customization line of any item with qty > 0)
NoPositiveLine(data) ==
    \A i \in DOMAIN data :
        \A k \in 1..Len(data[i].customizations) : data[i].customizations[k].qty <= 0

\* a faulty cleanup, to compare with: only the first DELETE runs
CleanupTicketsNullOnly(d, ids) ==
    [d EXCEPT !.tickets =
        [n \in {m \in DOMAIN d.tickets : ~(m \in ids /\ ~d.tickets[m].hasData)}
            |-> d.tickets[n]]]

\* the two cleanup DELETEs: among the given tickets, those with NULL data
\* and those with no line of qty > 0
CleanupTickets(d, ids) ==
    [d EXCEPT !.tickets =
        [n \in {m \in DOMAIN d.tickets :
                    ~(m \in ids /\ (~d.tickets[m].hasData
                                     \/ NoPositiveLine(d.tickets[m].data)))}
            |-> d.tickets[n]]]

\* a faulty step 6, to compare with: the map is written back even when
\* nothing remains
WriteSourceKeep(d, data, remainingItems) ==
    IF data.orderId \in DOMAIN d.orders
            /\ d.orders[data.orderId].restaurantId = data.restaurantId
    THEN [d EXCEPT !.orders[data.orderId].items = remainingItems]
    ELSE d

\* step 6: delete the source order when nothing remains, else write the map
WriteSource(d, data, remainingItems) ==
    IF DOMAIN remainingItems = {}
    THEN [d EXCEPT !.orders =
            [o \in {p \in DOMAIN d.orders :
                        ~(p = data.orderId /\ d.orders[p].restaurantId = data.restaurantId)}
                |-> d.orders[o]]]
    ELSE IF data.orderId \in DOMAIN d.orders
            /\ d.orders[data.orderId].restaurantId = data.restaurantId
    THEN [d EXCEPT !.orders[data.orderId].items = remainingItems]
    ELSE d

\* a faulty decision, to compare with: !nonPrintedOrder alone, which also
\* holds of a table without orders
AllDestPrintedOrNone(d, restaurantId, tableId) ==
    FirstNonPrinted(DestRows(d, restaurantId, tableId), d.orders) = 0

\* destOrderResult.rows.length > 0 && !nonPrintedOrder
AllDestPrinted(d, restaurantId, tableId) ==
    LET rows == DestRows(d, restaurantId, tableId)
    IN rows # <<>> /\ FirstNonPrinted(rows, d.orders) = 0

\* the request body moveItems hands to createOrUpdateOrder
MoveItemsBody(d, data, itemsForNewTable) ==
    [restaurantId |-> data.restaurantId, tableId |-> data.newTableId,
     items |-> itemsForNewTable, orderType |-> "captain",
     forceNewOrder |-> AllDestPrinted(d, data.restaurantId, data.newTableId),
     orderId |-> NoOrder]

\* steps 4 to 8 of moveItems.  ch.nRows and ch.dRows are the row orders of
\* the ticket and ledger queries of step 1, ch.dWin picks the surviving
\* update of a ledger row updated more than once
MoveItemsPartial(d, data, ch) ==
    LET oldItems  == d.orders[data.orderId].items
        forNew    == ItemsForNewTable(oldItems, data.items)
        remaining == RemainingItems(oldItems, data.items)
        dUps      == DeliveryUpdates(data.items, ch.nRows, ch.dRows, d.deliveries)
        sorted    == StableSortCreated(ch.nRows, d.tickets)
        tUps      == TicketUpdates(data.items, sorted, d.tickets)
        d1 == ApplyDeliveryUpdates(d, dUps, ch.dWin)
        d2 == ApplyTicketUpdates(d1, tUps)
        d3 == CleanupTickets(d2, {sorted[i] : i \in 1..Len(sorted)})
        d4 == WriteSource(d3, data, remaining)
        body == MoveItemsBody(d4, data, forNew)
    IN Outcome(Upsert(d4, body), "return",
               [success |-> TRUE, message |-> "Items moved successfully"],
               "partial",
               [itemsForNewTable |-> forNew, remainingItems |-> remaining,
                deliveryUpdates |-> dUps, ticketUpdates |-> tUps,
                afterSource |-> d4, body |-> body])

\* the path moveItems takes: a failed check of steps 1 and 2, the
\* delegation to moveTable of step 3, or its own steps 4 to 8
MoveItemsPath(d, data) ==
    IF ~SourceOrderFound(d, data) THEN "invalid"
    ELSE IF VerifyMoves(d.orders[data.orderId].items, data.items) # "" THEN "invalid"
    ELSE IF IsFullTableMove(d.orders[data.orderId].items, data.items) THEN "delegated"
    ELSE "partial"

\* moveItems(data)
MoveItems(d, data, ch) ==
    IF MoveItemsPath(d, data) = "invalid"
    THEN Outcome(d, "throw",
                 Thrown(IF ~SourceOrderFound(d, data)
                        THEN "Order not found on source table"
                        ELSE VerifyMoves(d.orders[data.orderId].items, data.items)),
                 "invalid", EmptyMap)
    ELSE IF MoveItemsPath(d, data) = "delegated"
    THEN LET r == MoveTable(d, data, ch.srcPick)
         IN Outcome(r.db, r.kind, r.value, "delegated", r.trace)
    ELSE MoveItemsPartial(d, data, ch)

----------------------------------------------------------------------------
(* moveKOT *)

\* a faulty step 0, to compare with: notificationIds is not examined
MoveKotMissingArrayUnchecked(data) ==
    \/ data.oldTableId = NoId \/ data.newTableId = NoId
    \/ data.restaurantId = NoId \/ data.orderId = NoOrder

\* step 0: a required field is missing or notificationIds is no array
\* (data.isArray is Array.isArray(notificationIds))
MoveKotMissing(data) ==
    \/ data.oldTableId = NoId \/ data.newTableId = NoId
    \/ data.restaurantId = NoId \/ data.orderId = NoOrder
    \/ ~data.isArray

\* step 1: SELECT COUNT(*) of the order's active created/updated tickets
KotTotal(d, data) == Cardinality(ActiveKots(d, data.restaurantId, data.orderId))

\* the ids a list names
IdSet(ids) == {ids[i] : i \in 1..Len(ids)}

\* a faulty step 2, to compare with: the distinct ids are counted
AllKotsMovedDistinct(d, data) ==
    Cardinality(IdSet(data.notificationIds)) = KotTotal(d, data)

\* step 2: notificationIds.length === total
AllKotsMoved(d, data) == Len(data.notificationIds) = KotTotal(d, data)

\* step 3: DELETE FROM notifications WHERE restaurant_id = $1
\*   AND order_id = $2 AND notification_id = ANY($3)
DeleteNamedTickets(d, data) ==
    [d EXCEPT !.tickets =
        [n \in {m \in DOMAIN d.tickets :
                    ~(/\ d.tickets[m].restaurantId = data.restaurantId
                      /\ d.tickets[m].orderId = data.orderId
                      /\ m \in IdSet(data.notificationIds))}
            |-> d.tickets[n]]]

\* step 4: the ledger rows WHERE notification_id = ANY($1)
NamedLedgerRows(d, data) ==
    {x \in DOMAIN d.deliveries :
        d.deliveries[x].notificationId \in IdSet(data.notificationIds)}

RECURSIVE ItemsToPrint(_, _)
\* step 5: the item map built from the ledger rows, in row order
ItemsToPrint(rows, dl) ==
    IF rows = <<>> THEN EmptyMap
    ELSE LET m == ItemsToPrint(SubSeq(rows, 1, Len(rows) - 1), dl)
             x == dl[rows[Len(rows)]]
         IN IF x.itemId \in DOMAIN m
            THEN [m EXCEPT ![x.itemId].customizations = Append(@, x.details)]
            ELSE With(m, x.itemId, [customizations |-> <<x.details>>])

\* the request body moveKOT hands to createOrUpdateOrder
MoveKotBody(d, data, itemsToPrint) ==
    LET rows == DestRows(d, data.restaurantId, data.newTableId)
    IN [restaurantId |-> data.restaurantId, tableId |-> data.newTableId,
        items |-> itemsToPrint, orderType |-> "captain",
        forceNewOrder |-> AllDestPrinted(d, data.restaurantId, data.newTableId),
        orderId |-> IF FirstNonPrinted(rows, d.orders) > 0
                    THEN rows[FirstNonPrinted(rows, d.orders)]
                    ELSE NoOrder]

\* DELETE FROM order_customization_deliveries WHERE notification_id = ANY($1)
DeleteNamedLedgerRows(d, data) ==
    [d EXCEPT !.deliveries =
        [x \in DOMAIN d.deliveries \ NamedLedgerRows(d, data) |-> d.deliveries[x]]]

\* JSON.stringify(a.variation) === JSON.stringify(b.variation)
\*   && JSON.stringify(a.addons) === JSON.stringify(b.addons)
IsSameCustomization(a, b) == a.variation = b.variation /\ a.addons = b.addons

\* a faulty quantity, to compare with: qtyChange is not looked at
QtyToRemoveQtyOnly(moveCustom) == moveCustom.qty

\* moveCustom.qtyChange !== undefined ? moveCustom.qtyChange : moveCustom.qty
QtyToRemove(moveCustom) ==
    IF moveCustom.qtyChange # <<>> THEN moveCustom.qtyChange[1] ELSE moveCustom.qty

\* the first line equal in variation and addons, 0 if none
MatchIndex(oldCustoms, moveCustom) ==
    IF \E i \in 1..Len(oldCustoms) : IsSameCustomization(moveCustom, oldCustoms[i])
    THEN CHOOSE i \in 1..Len(oldCustoms) :
            /\ IsSameCustomization(moveCustom, oldCustoms[i])
            /\ \A j \in 1..(i - 1) : ~IsSameCustomization(moveCustom, oldCustoms[j])
    ELSE 0

\* the lines of an item after one ledger row is taken off
ReduceCustoms(oldCustoms, moveCustom) ==
    LET i == MatchIndex(oldCustoms, moveCustom)
    IN IF i = 0 THEN oldCustoms
       ELSE IF oldCustoms[i].qty - QtyToRemove(moveCustom) <= 0
       THEN SubSeq(oldCustoms, 1, i - 1) \o SubSeq(oldCustoms, i + 1, Len(oldCustoms))
       ELSE [oldCustoms EXCEPT ![i].qty = @ - QtyToRemove(moveCustom)]

\* the item map of the source order after one ledger row
ReduceSourceStep(oldItems, x) ==
    IF x.itemId \notin DOMAIN oldItems THEN oldItems
    ELSE LET customs == ReduceCustoms(oldItems[x.itemId].customizations, x.details)
         IN IF customs = <<>> THEN Without(oldItems, x.itemId)
            ELSE With(oldItems, x.itemId,
                      [customizations |-> customs, totalQty |-> SumQty(customs)])

RECURSIVE ReduceSource(_, _, _)
\* step 6: the item map of the source order after all ledger rows
ReduceSource(oldItems, rows, dl) ==
    IF rows = <<>> THEN oldItems
    ELSE ReduceSource(ReduceSourceStep(oldItems, dl[Head(rows)]), Tail(rows), dl)

\* step 6: the source order, read by restaurant and id, is written back
WriteBackSource(d, data, rows, dl) ==
    IF /\ data.orderId \in DOMAIN d.orders
       /\ d.orders[data.orderId].restaurantId = data.restaurantId
    THEN [d EXCEPT !.orders[data.orderId].items = ReduceSource(@, rows, dl)]
    ELSE d

\* steps 3 to 6 of moveKOT.  ch.kRows is the row order of the ledger query
MoveKotPartial(d, data, ch) ==
    LET d1 == DeleteNamedTickets(d, data)
        itemsToPrint == ItemsToPrint(ch.kRows, d1.deliveries)
        body == MoveKotBody(d1, data, itemsToPrint)
        d2 == Upsert(d1, body)
        d3 == DeleteNamedLedgerRows(d2, data)
        d4 == WriteBackSource(d3, data, ch.kRows, d1.deliveries)
    IN Outcome(d4, "return",
               IF data.express THEN EmptyMap
               ELSE [success |-> TRUE, message |-> "KOT moved successfully"],
               "partial",
               [itemsToPrint |-> itemsToPrint, body |-> body,
                beforeSource |-> d3, rows |-> ch.kRows,
                responses |-> IF data.express THEN <<200>> ELSE <<>>])

\* the path moveKOT takes
MoveKotPath(d, data) ==
    IF MoveKotMissing(data) THEN "invalid"
    ELSE IF AllKotsMoved(d, data) THEN "delegated"
    ELSE "partial"

\* moveKOT(reqOrData, res): data.express tells the request-adapted shape
MoveKOT(d, data, ch) ==
    IF MoveKotPath(d, data) = "invalid"
    THEN Outcome(d, "return",
                 IF data.express THEN EmptyMap
                 ELSE [success |-> FALSE, error |-> "Missing required fields"],
                 "invalid",
                 [responses |-> IF data.express THEN <<400>> ELSE <<>>])
    ELSE IF MoveKotPath(d, data) = "delegated"
    THEN LET r == MoveTable(d, data, ch.srcPick)
         IN Outcome(r.db, r.kind, r.value, "delegated",
                    [responses |-> <<>>, srcPick |-> ch.srcPick])
    ELSE MoveKotPartial(d, data, ch)

\* the pool.query statements of moveKOT, in the order they run: 1 the
\* ticket count (625), 2 the ticket delete (646), 3 the ledger read (656),
\* 4 the destination read (674), 5 the ledger delete (726), 6 the source
\* read (733), 7 the source write (774)
KotQueries == 1..7

\* the message of a rejected pool.query
StorageError == "storage error"

\* the names bound where the catch block of moveKOT runs: its parameter and
\* the function's parameters.  oldTableId .. notificationIds and isExpress
\* are declared by let inside the try block (604-605) and end with it.
CatchScope == {"err", "reqOrData", "res"}

\* the catch block of moveKOT (786-793) on a failure err, with d stored.
\* Its test reads isExpress; a name that is not bound throws a
\* ReferenceError out of the catch block, and the call rejects with it.
MoveKotCatch(d, data, err) ==
    IF "isExpress" \notin CatchScope
    THEN Outcome(d, "throw", Thrown("isExpress is not defined"), "failed",
                 [responses |-> <<>>, err |-> err])
    ELSE IF data.express
    THEN Outcome(d, "return", EmptyMap, "failed",
                 [responses |-> <<500>>, err |-> err])
    ELSE Outcome(d, "return", [success |-> FALSE, error |-> err], "failed",
                 [responses |-> <<>>, err |-> err])

\* what is stored when query k of a moveKOT on the partial path is reached
KotStoredBefore(d, data, ch, k) ==
    LET d1 == DeleteNamedTickets(d, data)
        body == MoveKotBody(d1, data, ItemsToPrint(ch.kRows, d1.deliveries))
        d2 == Upsert(d1, body)
        d3 == DeleteNamedLedgerRows(d2, data)
    IN IF k <= 2 THEN d
       ELSE IF k <= 4 THEN d1
       ELSE IF k = 5 THEN d2
       ELSE d3

\* query k is reached by the call: the count always, the others on the
\* partial path, the source write when the source read finds the order
KotQueryReached(d, data, ch, k) ==
    \/ k = 1
    \/ /\ MoveKotPath(d, data) = "partial"
       /\ k = 7 => /\ data.orderId \in DOMAIN d.orders
                   /\ d.orders[data.orderId].restaurantId = data.restaurantId

\* moveKOT(reqOrData, res) when its query k rejects
MoveKotFailing(d, data, ch, k) ==
    MoveKotCatch(KotStoredBefore(d, data, ch, k), data, StorageError)

----------------------------------------------------------------------------
(* Stored states the operations start from *)

Line(variation, addons, isBasic, qty, qtyChange) ==
    [variation |-> variation, addons |-> addons, isBasic |-> isBasic,
     qty |-> qty, qtyChange |-> qtyChange]
BasicLine(q)  == Line("none", "none", TRUE, q, <<>>)
LargeLine(q)  == Line("large", "none", FALSE, q, <<>>)
CheeseLine(q) == Line("none", "cheese", FALSE, q, <<>>)

Entry(lines) == [customizations |-> lines, totalQty |-> SumQty(lines)]

OrderRow(tableId, printStatus, items, instructions, createdAt) ==
    [restaurantId |-> Restaurant, tableId |-> tableId, items |-> items,
     instructions |-> instructions, printStatus |-> printStatus,
     createdAt |-> createdAt]

TicketRow(orderId, tableNumber, active, actionType, hasData, data, createdAt) ==
    [restaurantId |-> Restaurant, orderId |-> orderId,
     tableNumber |-> tableNumber, active |-> active, actionType |-> actionType,
     hasData |-> hasData, data |-> data, createdAt |-> createdAt]

LedgerRow(notificationId, orderId, itemId, details, delivered, cancelled) ==
    [notificationId |-> notificationId, orderId |-> orderId, itemId |-> itemId,
     details |-> details, delivered |-> delivered, cancelled |-> cancelled]

\* a relation from a set of <<id, row>> pairs
Rel(pairs) ==
    [id \in {p[1] : p \in pairs} |-> (CHOOSE p \in pairs : p[1] = id)[2]]

\* the satellite relations of the order-centred start states
BaseOtps == Rel({<<1, [restaurantId |-> Restaurant, tableId |-> "T1"]>>,
                 <<2, [restaurantId |-> Restaurant, tableId |-> "T2"]>>})
BaseDiscounts ==
    Rel({<<1, [restaurantId |-> Restaurant, tableNumber |-> "T1", isActive |-> TRUE]>>,
         <<2, [restaurantId |-> Restaurant, tableNumber |-> "T1", isActive |-> FALSE]>>})
BaseOffers ==
    Rel({<<1, [restaurantId |-> Restaurant, orderId |-> 1, tableId |-> "T1",
               active |-> TRUE]>>})
BaseCaptains ==
    Rel({<<1, [restaurantId |-> Restaurant, assignedTables |-> <<"T1", "T2">>]>>,
         <<2, [restaurantId |-> Restaurant, assignedTables |-> <<"T1">>]>>})

SetMax(S) == CHOOSE m \in S : \A x \in S : x <= m

\* the number the next new order row gets: above every id and created_at
NextSeq(orders) ==
    1 + SetMax({0} \cup DOMAIN orders
                   \cup {orders[o].createdAt : o \in DOMAIN orders})

Db(orders, tickets, deliveries) ==
    [orders |-> orders, tickets |-> tickets, deliveries |-> deliveries,
     otps |-> BaseOtps, discounts |-> BaseDiscounts, offers |-> BaseOffers,
     captains |-> BaseCaptains, seq |-> NextSeq(orders)]

Qtys == 1..MaxQty

\* item maps of a source order: item A with a basic line, alone or followed
\* by a second line, and item B absent or with one basic line
SourceItemMaps ==
    LET aLines == {<<BasicLine(q)>> : q \in Qtys}
                  \cup {<<BasicLine(q1), LargeLine(q2)>> : q1 \in Qtys, q2 \in Qtys}
                  \cup {<<BasicLine(q), CheeseLine(1)>> : q \in Qtys}
    IN {Rel({<<"A", Entry(a)>>}) : a \in aLines}
       \cup {Rel({<<"A", Entry(a)>>, <<"B", Entry(<<BasicLine(1)>>)>>}) : a \in aLines}

\* the orders on table T2 a move to T2 can meet, besides source order 1:
\* none; one printed; one not printed; a printed one and a younger unprinted
\* one; two unprinted ones of which the one with the higher id is older
DestOrderSets ==
    LET items == Rel({<<"A", Entry(<<BasicLine(1)>>)>>})
        other == Rel({<<"B", Entry(<<LargeLine(1)>>)>>})
    IN {EmptyMap,
        Rel({<<2, OrderRow("T2", TRUE, items, <<"y">>, 2)>>}),
        Rel({<<2, OrderRow("T2", FALSE, items, <<"y">>, 2)>>}),
        Rel({<<2, OrderRow("T2", TRUE, items, <<>>, 2)>>,
             <<3, OrderRow("T2", FALSE, other, <<"z">>, 3)>>}),
        Rel({<<2, OrderRow("T2", FALSE, items, <<"y">>, 3)>>,
             <<3, OrderRow("T2", FALSE, other, <<>>, 2)>>}),
        Rel({<<2, OrderRow("T1", TRUE, other, <<"y">>, 2)>>}),
        Rel({<<2, OrderRow("T1", FALSE, other, <<>>, 0)>>,
             <<3, OrderRow("T2", FALSE, items, <<"z">>, 3)>>})}

\* the source order: id 1 on table T1
SourceOrder(printStatus, items) ==
    Rel({<<1, OrderRow("T1", printStatus, items, <<"x">>, 1)>>})

KotRow(orderId, tableNumber, hasData, data, createdAt) ==
    TicketRow(orderId, tableNumber, TRUE, "order_created", hasData, data, createdAt)

\* what a ticket shows: nothing (NULL), item A, items A and B, or item A
\* without a basic line
TicketData ==
    {<<FALSE, EmptyMap>>}
    \cup {<<TRUE, Rel({<<"A", [customizations |-> <<BasicLine(q)>>]>>})>> : q \in Qtys}
    \cup {<<TRUE, Rel({<<"A", [customizations |-> <<BasicLine(1)>>]>>,
                       <<"B", [customizations |-> <<BasicLine(1)>>]>>})>>,
          <<TRUE, Rel({<<"A", [customizations |-> <<LargeLine(1)>>]>>})>>}

\* tickets of order 1: ticket 10, and ticket 11 absent or older than 10
SourceTickets ==
    {Rel({<<10, KotRow(1, "T1", t[1], t[2], 2)>>}) : t \in TicketData}
    \cup {Rel({<<10, KotRow(1, "T1", t[1], t[2], 2)>>,
               <<11, KotRow(1, "T1", TRUE, u, 1)>>}) :
            t \in TicketData,
            u \in {Rel({<<i, [customizations |-> <<Line("none", "none", TRUE, 1, <<1>>)>>]>>}) :
                        i \in ItemIds}}

\* ledger rows of order 1 under the tickets given: row 20 under ticket 10
\* for item A, row 21 a second row of the same ticket and item, row 22 under
\* ticket 11 for the item that ticket shows
ItemsLedgers(tickets) ==
    LET r20 == {<<20, LedgerRow(10, 1, "A", BasicLine(q), FALSE, FALSE)>> : q \in Qtys}
               \cup {<<20, LedgerRow(10, 1, "A", BasicLine(1), TRUE, FALSE)>>}
        r21 == {<<21, LedgerRow(10, 1, "A", LargeLine(1), FALSE, FALSE)>>}
        r22 == IF 11 \in DOMAIN tickets
               THEN {<<22, LedgerRow(11, 1, i, BasicLine(1), FALSE, FALSE)>> :
                        i \in DOMAIN tickets[11].data}
               ELSE {}
    IN {Rel(a \cup b \cup c) :
            a \in {{}} \cup {{x} : x \in r20},
            b \in {{}} \cup {{x} : x \in r21},
            c \in {{}} \cup {{x} : x \in r22}}

\* start states that vary the destination table under a fixed ticket and ledger
StartDest ==
    {Db(SourceOrder(p, m) @@ o,
        Rel({<<10, KotRow(1, "T1", TRUE,
                          Rel({<<"A", [customizations |-> <<BasicLine(1)>>]>>}), 1)>>}),
        Rel({<<20, LedgerRow(10, 1, "A", BasicLine(1), FALSE, FALSE)>>})) :
        p \in BOOLEAN, m \in SourceItemMaps, o \in DestOrderSets}

\* start states that vary the tickets and the ledger of the source order
StartItems ==
    UNION {{Db(SourceOrder(FALSE, m), t, l) : l \in ItemsLedgers(t)} :
            m \in {Rel({<<"A", Entry(<<BasicLine(MaxQty)>>)>>}),
                    Rel({<<"A", Entry(<<BasicLine(MaxQty), LargeLine(1)>>)>>}),
                    Rel({<<"A", Entry(<<BasicLine(MaxQty)>>)>>,
                         <<"B", Entry(<<BasicLine(1)>>)>>})},
            t \in SourceTickets}

\* start states that vary the ledger rows the named tickets of a moveKOT
\* stand for: order 1 on T1 with tickets 10 and 11, order 2 on T2 with
\* ticket 12
KotLedgers ==
    LET details == {Line(k[1], k[2], k[3], q, qc) :
                        k \in {<<"none", "none", TRUE>>, <<"large", "none", FALSE>>,
                               <<"none", "cheese", FALSE>>},
                        q \in Qtys, qc \in {<<>>, <<1>>}}
        r20 == {<<20, LedgerRow(10, 1, "A", c, FALSE, FALSE)>> : c \in details}
               \cup {<<20, LedgerRow(10, 1, "A", BasicLine(1), TRUE, FALSE)>>}
        r21 == {<<21, LedgerRow(11, 1, i, BasicLine(1), FALSE, FALSE)>> : i \in ItemIds}
        r22 == <<22, LedgerRow(12, 2, "A", BasicLine(1), FALSE, FALSE)>>
    IN {Rel({a, r22} \cup b) :
            a \in r20,
            b \in {{}} \cup {{x} : x \in r21}}

StartKot ==
    LET shown == Rel({<<"A", [customizations |-> <<BasicLine(1)>>]>>})
        order2 == Rel({<<2, OrderRow("T2", FALSE, shown, <<>>, 2)>>})
    IN {Db(SourceOrder(FALSE, m) @@ order2,
           Rel({<<10, KotRow(1, "T1", TRUE, shown, 1)>>,
                <<11, TicketRow(1, "T1", act, "order-updated", TRUE, shown, 2)>>,
                <<12, KotRow(2, "T2", TRUE, shown, 3)>>}),
           l) :
        m \in {x \in SourceItemMaps : "B" \notin DOMAIN x}
              \cup {Rel({<<"A", Entry(<<BasicLine(1)>>)>>,
                         <<"B", Entry(<<BasicLine(1)>>)>>})},
        act \in BOOLEAN, l \in KotLedgers}

\* start states that vary the orders of both tables: order 1 on T1, order 2
\* and order 3 absent or on either table, order 3 the oldest or the youngest
StartTable ==
    LET maps1 == {Rel({<<"A", Entry(<<BasicLine(q)>>)>>}) : q \in Qtys}
                 \cup {Rel({<<"A", Entry(<<LargeLine(1)>>)>>,
                            <<"B", Entry(<<BasicLine(1)>>)>>})}
        maps2 == {Rel({<<"A", Entry(<<BasicLine(1), CheeseLine(1)>>)>>}),
                  Rel({<<"B", Entry(<<BasicLine(1)>>)>>})}
        map3  == Rel({<<"B", Entry(<<LargeLine(1)>>)>>})
        o1 == {Rel({<<1, OrderRow("T1", p, m, i, 1)>>}) :
                    p \in BOOLEAN, m \in maps1, i \in {<<>>, <<"x">>}}
        o2 == {EmptyMap} \cup
              {Rel({<<2, OrderRow(t, p, m, i, 2)>>}) :
                    t \in Tables, p \in BOOLEAN, m \in maps2, i \in {<<>>, <<"y">>}}
        o3 == {EmptyMap} \cup
              {Rel({<<3, OrderRow(t, p, map3, <<>>, c)>>}) :
                    t \in Tables, p \in BOOLEAN, c \in {0, 3}}
        shown == Rel({<<"A", [customizations |-> <<BasicLine(1)>>]>>})
    IN UNION {
        {Db(a @@ b @@ c,
            Rel({<<10, KotRow(1, "T1", TRUE, shown, 1)>>,
                 <<11, TicketRow(o, (a @@ b)[o].tableId, act, "order_created",
                                 TRUE, shown, 2)>>}),
            Rel({<<20, LedgerRow(10, 1, "A", BasicLine(1), FALSE, FALSE)>>,
                 <<21, LedgerRow(11, o, "A", BasicLine(1), FALSE, FALSE)>>})) :
            o \in DOMAIN (a @@ b), act \in BOOLEAN} :
        a \in o1, b \in o2, c \in o3}

----------------------------------------------------------------------------
(* Requests *)

\* no operation has run
NoOp == [op |-> "none"]

Done(op, data, r) ==
    [op |-> op, data |-> data, kind |-> r.kind, value |-> r.value,
     path |-> r.path, trace |-> r.trace]

RECURSIVE Perms(_)
\* the sequences that list every element of S once
Perms(S) ==
    IF S = {} THEN {<<>>}
    ELSE UNION {{<<x>> \o p : p \in Perms(S \ {x})} : x \in S}

RECURSIVE RowOrders(_, _)
\* the orders in which a query without ORDER BY can return the ledger rows
\* S, as far as the operations tell them apart: they read the rows of one
\* ticket and item in row order and never compare rows of different ones,
\* so the groups are listed one after the other
RowOrders(S, dl) ==
    IF S = {} THEN {<<>>}
    ELSE LET x == CHOOSE y \in S : \A z \in S : y <= z
             g == {y \in S : /\ dl[y].notificationId = dl[x].notificationId
                             /\ dl[y].itemId = dl[x].itemId}
         IN UNION {{p \o q : q \in RowOrders(S \ g, dl)} : p \in Perms(g)}

\* lists of at most n elements of S
ListsOf(S, n) == UNION {[1..k -> S] : k \in 0..n}

Request(restaurantId, oldTableId, newTableId, orderId) ==
    [restaurantId |-> restaurantId, oldTableId |-> oldTableId,
     newTableId |-> newTableId, orderId |-> orderId]

\* the requests moveTable is called with: between any two tables, and with
\* one of the three required fields missing
MoveTableRequests ==
    {Request(Restaurant, old, new, 1) : old \in Tables, new \in Tables}
    \cup {Request(NoId, "T1", "T2", 1), Request(Restaurant, NoId, "T2", 1),
          Request(Restaurant, "T1", NoId, 1)}

MoveTableStep ==
    /\ last.op = "none"
    /\ \E data \in MoveTableRequests :
       \E srcPick \in SrcPicks(db, data) :
          LET r == MoveTable(db, data, srcPick)
          IN /\ db' = r.db
             /\ pre' = db
             /\ last' = Done("moveTable", data, r)

\* moveTable called again with the arguments of the moveTable that has just
\* returned, between two different tables
MoveTableAgainStep ==
    /\ last.op = "moveTable" /\ last.kind = "return"
    /\ last.data.oldTableId # last.data.newTableId
    /\ \E srcPick \in SrcPicks(db, last.data) :
          LET r == MoveTable(db, last.data, srcPick)
          IN /\ db' = r.db
             /\ pre' = db
             /\ last' = Done("moveTableAgain", last.data, r)

\* the items lists of a moveItems request: at most one entry per item id,
\* a repeated item id included, with quantities 1..MaxQty+1
ItemLists ==
    ListsOf([itemId : ItemIds, quantity : 1..(MaxQty + 1)], Cardinality(ItemIds))

\* the requests moveItems is called with: order 1 from T1 to T2 with any
\* items list or one with a quantity below 1; order 1 from T1 to T1 itself
\* with a list of one entry; order 2, which may not exist or not be on T1
MoveItemsRequests ==
    {Request(Restaurant, "T1", "T2", 1) @@ [items |-> l] :
        l \in ItemLists \cup {<<[itemId |-> "A", quantity |-> 0]>>,
                              <<[itemId |-> "A", quantity |-> 1],
                                [itemId |-> "B", quantity |-> 0]>>}}
    \cup {Request(Restaurant, "T1", "T1", 1) @@ [items |-> l] :
            l \in {x \in ItemLists : Len(x) = 1}}
    \cup {Request(Restaurant, "T1", "T2", 2) @@ [items |-> l] :
            l \in {x \in ItemLists : Len(x) = 1 /\ x[1].quantity = 1}}

\* the ledger rows a request can update more than once: the rows of an
\* item the list names more than once
RepeatedRows(d, data) ==
    {x \in OutstandingRows(d, data.orderId) :
        \E i, j \in 1..Len(data.items) :
            /\ i # j
            /\ data.items[i].itemId = d.deliveries[x].itemId
            /\ data.items[j].itemId = d.deliveries[x].itemId}

\* the choices a moveItems run leaves open on the path it takes
MoveItemsChoices(d, data) ==
    IF MoveItemsPath(d, data) = "partial"
    THEN {[srcPick |-> NoOrder, nRows |-> n, dRows |-> r, dWin |-> w] :
            n \in Perms(ActiveKots(d, data.restaurantId, data.orderId)),
            r \in RowOrders(OutstandingRows(d, data.orderId), d.deliveries),
            w \in [RepeatedRows(d, data) -> 0..(Len(data.items) - 1)]}
    ELSE {[srcPick |-> s, nRows |-> <<>>, dRows |-> <<>>, dWin |-> EmptyMap] :
            s \in IF MoveItemsPath(d, data) = "delegated"
                  THEN SrcPicks(d, data) ELSE {NoOrder}}

MoveItemsStep ==
    /\ last.op = "none"
    /\ \E data \in MoveItemsRequests :
       \E ch \in MoveItemsChoices(db, data) :
          LET r == MoveItems(db, data, ch)
          IN /\ db' = r.db
             /\ pre' = db
             /\ last' = Done("moveItems", data, r)

\* the ticket ids a moveKOT request names: tickets of order 1 (10, 11), a
\* ticket of order 2 (12) and no ticket's id (99)
NamedIds == {10, 11, 12, 99}
\* the notificationIds lists: up to as many ids as order 1 can have tickets
IdLists == ListsOf(NamedIds, Cardinality({10, 11}))

\* the requests with a required field missing or with a notificationIds
\* that is not an array
IncompleteKotRequests ==
    {Request(NoId, "T1", "T2", 1) @@ [notificationIds |-> <<10>>, isArray |-> TRUE],
     Request(Restaurant, NoId, "T2", 1) @@ [notificationIds |-> <<10>>, isArray |-> TRUE],
     Request(Restaurant, "T1", NoId, 1) @@ [notificationIds |-> <<10>>, isArray |-> TRUE],
     Request(Restaurant, "T1", "T2", NoOrder) @@ [notificationIds |-> <<10>>, isArray |-> TRUE],
     Request(Restaurant, "T1", "T2", 1) @@ [notificationIds |-> <<>>, isArray |-> FALSE]}

\* the requests moveKOT is called with, in both call shapes
MoveKotRequests ==
    {Request(Restaurant, "T1", "T2", 1)
        @@ [notificationIds |-> l, isArray |-> TRUE, express |-> e] :
        l \in IdLists, e \in BOOLEAN}
    \cup {r @@ [express |-> e] : r \in IncompleteKotRequests, e \in BOOLEAN}

\* the choices a moveKOT run leaves open on the path it takes
MoveKotChoices(d, data) ==
    IF MoveKotPath(d, data) = "partial"
    THEN {[srcPick |-> NoOrder, kRows |-> r] :
            r \in RowOrders(NamedLedgerRows(d, data), d.deliveries)}
    ELSE {[srcPick |-> s, kRows |-> <<>>] :
            s \in IF MoveKotPath(d, data) = "delegated"
                  THEN SrcPicks(d, data) ELSE {NoOrder}}

MoveKotStep ==
    /\ last.op = "none"
    /\ \E data \in MoveKotRequests :
       \E ch \in MoveKotChoices(db, data) :
          LET r == MoveKOT(db, data, ch)
          IN /\ db' = r.db
             /\ pre' = db
             /\ last' = Done("moveKOT", data, r)

\* a moveKOT one of whose queries fails
MoveKotFaultStep ==
    /\ last.op = "none"
    /\ \E data \in MoveKotRequests :
       \E ch \in MoveKotChoices(db, data) :
       \E k \in KotQueries :
          /\ MoveKotPath(db, data) # "invalid"
          /\ KotQueryReached(db, data, ch, k)
          /\ LET r == MoveKotFailing(db, data, ch, k)
             IN /\ db' = r.db
                /\ pre' = db
                /\ last' = Done("moveKOT", data, r)

\* a comparison for MergeStoredBefore: the statements of a call as one
\* transaction, rolled back when one fails
MergeRolledBack(d, data, srcPick, k) == d

\* what is stored when statement k of moveTable's merge is reached: 1 the
\* destination order's UPDATE (459), 2 the tickets' UPDATE (468), 3 the
\* ledger's UPDATE (479), 4 the source order's DELETE (487).  Each is its
\* own pool.query, committed when it returns.
MergeStoredBefore(d, data, srcPick, k) ==
    LET destId == DestTarget(DestRows(d, data.restaurantId, data.newTableId),
                             d.orders)
        d1 == MergeWriteDest(d, destId, srcPick)
        d2 == RepointTickets(d1, data, destId, srcPick)
        d3 == RepointDeliveries(d2, destId, srcPick)
    IN IF k = 1 THEN d ELSE IF k = 2 THEN d1 ELSE IF k = 3 THEN d2 ELSE d3

\* moveTable(data) when statement k of its merge rejects: the catch block
\* logs and rethrows (593-596)
MoveTableFailing(d, data, srcPick, k) ==
    Outcome(MergeStoredBefore(d, data, srcPick, k), "throw",
            Thrown(StorageError), "failed",
            [srcPick |-> srcPick, failedAt |-> k])

\* what is stored when a statement of moveItems' steps 5 to 7 is reached:
\* 1 the first ticket statement (270, 308), after the ledger UPDATEs; 2 the
\* cleanup DELETEs (308), after the ticket UPDATEs; 3 the source order's
\* DELETE or UPDATE (333, 341), after the cleanup; 4 the destination read
\* and upsert (351, 395), after the source order is written
ItemsStoredBefore(d, data, ch, k) ==
    LET oldItems == d.orders[data.orderId].items
        sorted == StableSortCreated(ch.nRows, d.tickets)
        d1 == ApplyDeliveryUpdates(d,
                DeliveryUpdates(data.items, ch.nRows, ch.dRows, d.deliveries),
                ch.dWin)
        d2 == ApplyTicketUpdates(d1, TicketUpdates(data.items, sorted, d.tickets))
        d3 == CleanupTickets(d2, {sorted[i] : i \in 1..Len(sorted)})
        d4 == WriteSource(d3, data, RemainingItems(oldItems, data.items))
    IN IF k = 1 THEN d1 ELSE IF k = 2 THEN d2 ELSE IF k = 3 THEN d3 ELSE d4

\* moveItems(data) when such a statement rejects: the catch block logs and
\* rethrows (402-405)
MoveItemsFailing(d, data, ch, k) ==
    Outcome(ItemsStoredBefore(d, data, ch, k), "throw",
            Thrown(StorageError), "failed", [failedAt |-> k])

\* a moveTable that merges, one of whose statements fails
MoveTableFaultStep ==
    /\ last.op = "none"
    /\ \E data \in MoveTableRequests :
       \E srcPick \in SrcPicks(db, data) :
       \E k \in 1..4 :
          /\ ~MoveTableMissing(data)
          /\ MoveTableBranch(db, data, srcPick) = "merge"
          /\ LET r == MoveTableFailing(db, data, srcPick, k)
             IN /\ db' = r.db
                /\ pre' = db
                /\ last' = Done("moveTable", data, r)

\* a moveItems on its own steps 4 to 8, one of whose statements fails
MoveItemsFaultStep ==
    /\ last.op = "none"
    /\ \E data \in MoveItemsRequests :
       \E ch \in MoveItemsChoices(db, data) :
       \E k \in 1..4 :
          /\ MoveItemsPath(db, data) = "partial"
          /\ LET r == MoveItemsFailing(db, data, ch, k)
             IN /\ db' = r.db
                /\ pre' = db
                /\ last' = Done("moveItems", data, r)

\* Two moveItems calls in flight.  Each call runs its statements in order
\* and may be overtaken at an await: after the reads of step 1 ("read"),
\* after the writes of steps 5 and 6 ("written"), and it ends with the
\* destination upsert of step 7 ("done").  last.calls holds, per call, its
\* request, its position, the rows step 1 returned to it (snap, ch) and
\* whether the other call had written the source order by then;
\* last.writes lists the calls in the order of their source writes.
ConcurrentRequests ==
    {Request(Restaurant, "T1", "T2", 1)
        @@ [items |-> <<[itemId |-> i, quantity |-> q]>>] :
        i \in ItemIds, q \in Qtys}

Calls == {1, 2}

ConcurrentStart ==
    /\ last.op = "none"
    /\ \E d1 \in ConcurrentRequests, d2 \in ConcurrentRequests :
        last' = [op |-> "moveItems||moveItems", writes |-> <<>>,
                 calls |-> [p \in Calls |->
                    [data |-> IF p = 1 THEN d1 ELSE d2, pc |-> "start",
                     snap |-> EmptyMap, ch |-> EmptyMap, late |-> FALSE]]]
    /\ pre' = db
    /\ UNCHANGED db

InFlight(p, pc) ==
    /\ last.op = "moveItems||moveItems"
    /\ last.calls[p].pc = pc

\* step 1 to 3 of call p: the three SELECTs and the checks on their rows.
\* A call that does not take its own steps 4 to 8 ends here, as MoveItems.
ConcurrentRead(p) ==
    /\ InFlight(p, "start")
    /\ LET data == last.calls[p].data
       IN \E ch \in MoveItemsChoices(db, data) :
            IF MoveItemsPath(db, data) = "partial"
            THEN /\ last' = [last EXCEPT !.calls[p] =
                                [@ EXCEPT !.pc = "read", !.snap = db, !.ch = ch,
                                          !.late = last.writes # <<>>]]
                 /\ UNCHANGED db
            ELSE /\ db' = MoveItems(db, data, ch).db
                 /\ last' = [last EXCEPT !.calls[p].pc = "ended"]
    /\ UNCHANGED pre

\* a step 4 to compare with: the item map is read again at the write
\* (where the order still holds the requested items)
ConcurrentRemainingFresh(d, call) ==
    IF /\ call.data.orderId \in DOMAIN d.orders
       /\ \A i \in 1..Len(call.data.items) :
            call.data.items[i].itemId \in DOMAIN d.orders[call.data.orderId].items
    THEN RemainingItems(d.orders[call.data.orderId].items, call.data.items)
    ELSE RemainingItems(call.snap.orders[call.data.orderId].items, call.data.items)

\* step 4 of a call: remainingItems, from the order row the call read
ConcurrentRemaining(d, call) ==
    RemainingItems(call.snap.orders[call.data.orderId].items, call.data.items)

\* steps 5 and 6 of call p, on the rows stored now
ConcurrentWrite(p) ==
    /\ InFlight(p, "read")
    /\ LET c == last.calls[p]
           sorted == StableSortCreated(c.ch.nRows, c.snap.tickets)
           d1 == ApplyDeliveryUpdates(db,
                    DeliveryUpdates(c.data.items, c.ch.nRows, c.ch.dRows,
                                    c.snap.deliveries), c.ch.dWin)
           d2 == ApplyTicketUpdates(d1,
                    TicketUpdates(c.data.items, sorted, c.snap.tickets))
           d3 == CleanupTickets(d2, {sorted[i] : i \in 1..Len(sorted)})
       IN db' = WriteSource(d3, c.data, ConcurrentRemaining(db, c))
    /\ last' = [last EXCEPT !.calls[p].pc = "written",
                            !.writes = Append(@, p)]
    /\ UNCHANGED pre

\* step 7 of call p: the destination is read now, the items are those
\* computed from the rows the call read
ConcurrentUpsert(p) ==
    /\ InFlight(p, "written")
    /\ LET c == last.calls[p]
           forNew == ItemsForNewTable(c.snap.orders[c.data.orderId].items,
                                      c.data.items)
       IN db' = Upsert(db, MoveItemsBody(db, c.data, forNew))
    /\ last' = [last EXCEPT !.calls[p].pc = "done"]
    /\ UNCHANGED pre

\* the start states of each specification
InitTable == db \in StartTable /\ pre = db /\ last = NoOp
InitItems == db \in StartDest \cup StartItems /\ pre = db /\ last = NoOp
InitKot   == db \in StartDest \cup StartKot /\ pre = db /\ last = NoOp
Init      == db \in StartDest /\ pre = db /\ last = NoOp

Next == MoveTableStep \/ MoveItemsStep \/ MoveKotStep

\* moveTable alone
SpecTable == InitTable /\ [][MoveTableStep]_vars
\* moveTable, and the same call once more
SpecTableTwice == InitTable /\ [][MoveTableStep \/ MoveTableAgainStep]_vars
\* moveItems alone
SpecItems == InitItems /\ [][MoveItemsStep]_vars
\* moveTable and moveItems with a storage failure
SpecFault == Init /\ [][MoveTableFaultStep \/ MoveItemsFaultStep]_vars
\* two moveItems calls at once
SpecItemsConcurrent ==
    Init /\ [][ConcurrentStart \/ \E p \in Calls : ConcurrentRead(p)
                                                   \/ ConcurrentWrite(p)
                                                   \/ ConcurrentUpsert(p)]_vars
\* moveKOT alone
SpecKot == InitKot /\ [][MoveKotStep]_vars
\* moveKOT alone, with a storage failure
SpecKotFault == InitKot /\ [][MoveKotFaultStep]_vars
\* the three operations, from the start states that vary the destination
Spec == Init /\ [][Next]_vars

----------------------------------------------------------------------------
(* Properties *)

\* the sum of the line qty of an item of an item map
TotalOf(items, itemId) == SumQty(items[itemId].customizations)

\* a moveItems request that names exactly the items of the source order,
\* each with its total quantity
FullRequest(d, data) ==
    /\ SourceOrderFound(d, data)
    /\ {data.items[i].itemId : i \in 1..Len(data.items)}
            = DOMAIN d.orders[data.orderId].items
    /\ \A i \in 1..Len(data.items) :
            data.items[i].quantity
                = TotalOf(d.orders[data.orderId].items, data.items[i].itemId)

\* C1: a moveItems request that names exactly the items of the source order,
\* each with its total quantity, leaves the stored state and returns the
\* value that moveTable leaves and returns for the same arguments from the
\* same state, and takes no step of its own partial path.
C1_FullMoveEquivalence ==
    (last.op = "moveItems" /\ FullRequest(pre, last.data))
        => /\ last.path = "delegated"
           /\ \E s \in SrcPicks(pre, last.data) :
                LET r == MoveTable(pre, last.data, s)
                IN db = r.db /\ last.kind = r.kind /\ last.value = r.value

\* a full request for two items, one of them with two lines, whose
\* source order was merged into an order of the destination table
C1_Witness ==
    /\ last.op = "moveItems"
    /\ FullRequest(pre, last.data)
    /\ Len(last.data.items) = Cardinality(ItemIds)
    /\ \E i \in DOMAIN pre.orders[last.data.orderId].items :
            Len(pre.orders[last.data.orderId].items[i].customizations) > 1
    /\ last.data.orderId \notin DOMAIN db.orders

\* the entries of a request that alone name their item
NamedOnce(items) ==
    {i \in 1..Len(items) :
        \A j \in 1..Len(items) : items[j].itemId = items[i].itemId => j = i}

\* C2: in the partial path of moveItems, for an item whose every line has
\* qty <= the requested quantity, the request is not rejected, the
\* destination snapshot carries every line with qty equal to the requested
\* quantity, and the item is removed entirely from the item map left to the
\* source order.
C2_ClippingRemovesItem ==
    (last.op = "moveItems" /\ last.path = "partial")
        => \A i \in NamedOnce(last.data.items) :
            LET r     == last.data.items[i]
                lines == pre.orders[last.data.orderId].items[r.itemId].customizations
                after == last.trace.afterSource.orders
            IN (\A k \in 1..Len(lines) : lines[k].qty <= r.quantity)
                => /\ last.kind = "return"
                   /\ Len(last.trace.itemsForNewTable[r.itemId].customizations)
                        = Len(lines)
                   /\ \A k \in 1..Len(lines) :
                        last.trace.itemsForNewTable[r.itemId].customizations[k].qty
                            = r.quantity
                   /\ r.itemId \notin DOMAIN last.trace.remainingItems
                   /\ last.data.orderId \in DOMAIN after
                        => r.itemId \notin DOMAIN after[last.data.orderId].items

\* C3: after a successfully completed moveTable, moveItems or moveKOT no
\* order persists whose item map is empty.
C3_NoEmptyOrderPersists ==
    (last.op # "none" /\ last.kind = "return" /\ last.path # "invalid")
        => \A o \in DOMAIN db.orders : DOMAIN db.orders[o].items # {}

\* C4: the partial path of moveItems deletes the source order row exactly
\* when the remaining item map is empty and otherwise writes the reduced map
\* back; the partial path of moveKOT writes the source order back, reduced by
\* the moved ledger rows, and never deletes it, whatever is left of its map.
C4_SourceDeletionParity ==
    /\ (last.op = "moveItems" /\ last.path = "partial")
        => LET src   == last.data.orderId
               after == last.trace.afterSource.orders
           IN /\ src \notin DOMAIN after <=> DOMAIN last.trace.remainingItems = {}
              /\ src \in DOMAIN after
                    => after[src].items = last.trace.remainingItems
              /\ DOMAIN pre.orders \ {src} \subseteq DOMAIN after
    /\ (last.op = "moveKOT" /\ last.path = "partial")
        => LET src == last.data.orderId
           IN /\ DOMAIN pre.orders \subseteq DOMAIN db.orders
              /\ src \in DOMAIN pre.orders
                    => db.orders[src].items
                        = ReduceSource(last.trace.beforeSource.orders[src].items,
                                       last.trace.rows, pre.deliveries)

\* a moveKOT that took every line of the source order, which persists with
\* an empty item map
C4_Witness ==
    /\ last.op = "moveKOT" /\ last.path = "partial"
    /\ DOMAIN pre.orders[last.data.orderId].items # {}
    /\ last.data.orderId \in DOMAIN db.orders
    /\ DOMAIN db.orders[last.data.orderId].items = {}

\* the qty the ledger records as outstanding for an item under tickets
OutstandingQty(d, orderId, itemId, ticketIds) ==
    LET rows == {x \in OutstandingRows(d, orderId) :
                    /\ d.deliveries[x].itemId = itemId
                    /\ d.deliveries[x].notificationId \in ticketIds}
    IN SetSum(rows, [x \in rows |-> d.deliveries[x].details.qty])

\* C5: for every item moved by the partial path of moveItems or moveKOT,
\* the quantity placed on the destination (for moveItems the qty of each
\* line placed, for moveKOT the sum of the lines placed) does not exceed the
\* quantity the ledger records as outstanding for the item under the tickets
\* involved.
C5_OutstandingBound ==
    /\ (last.op = "moveItems" /\ last.path = "partial")
        => \A i \in DOMAIN last.trace.itemsForNewTable :
            \A k \in 1..Len(last.trace.itemsForNewTable[i].customizations) :
                last.trace.itemsForNewTable[i].customizations[k].qty
                    <= OutstandingQty(pre, last.data.orderId, i,
                            ActiveKots(pre, last.data.restaurantId, last.data.orderId))
    /\ (last.op = "moveKOT" /\ last.path = "partial")
        => \A i \in DOMAIN last.trace.itemsToPrint :
                SumQty(last.trace.itemsToPrint[i].customizations)
                    <= OutstandingQty(pre, last.data.orderId, i,
                                      IdSet(last.data.notificationIds))

\* the number of active created/updated tickets of the order of a request
ActiveKotCount(d, data) ==
    Cardinality({n \in DOMAIN d.tickets :
        /\ d.tickets[n].restaurantId = data.restaurantId
        /\ d.tickets[n].orderId = data.orderId
        /\ d.tickets[n].active
        /\ d.tickets[n].actionType \in {"order_created", "order-updated"}})

\* C6: a moveKOT with its required fields delegates to moveTable exactly
\* when the number of ids in notificationIds equals the count of the order's
\* active created/updated tickets, whichever ids are passed; it then leaves
\* what moveTable leaves, and no ticket and no ledger row is deleted.
C6_TicketCountEquivalence ==
    (last.op = "moveKOT" /\ last.path # "invalid")
        => /\ last.path = "delegated"
                <=> Len(last.data.notificationIds) = ActiveKotCount(pre, last.data)
           /\ last.path = "delegated"
                => /\ \E s \in SrcPicks(pre, last.data) :
                        db = MoveTable(pre, last.data, s).db
                   /\ DOMAIN db.tickets = DOMAIN pre.tickets
                   /\ DOMAIN db.deliveries = DOMAIN pre.deliveries

\* a delegated moveKOT whose ids name no ticket of the order, or one twice,
\* while the ledger holds rows under the ids it names
C6_Witness ==
    /\ last.op = "moveKOT" /\ last.path = "delegated"
    /\ Len(last.data.notificationIds) > 1
    /\ IdSet(last.data.notificationIds)
            # ActiveKots(pre, last.data.restaurantId, last.data.orderId)
    /\ NamedLedgerRows(pre, last.data) # {}
    /\ db # pre

\* the orders of a table
TableOrders(orders, restaurantId, tableId) ==
    {o \in DOMAIN orders :
        orders[o].restaurantId = restaurantId /\ orders[o].tableId = tableId}

\* the lines of an item in an item map, none if the map lacks the item
LinesOf(items, i) ==
    IF i \in DOMAIN items THEN items[i].customizations ELSE <<>>

\* the item map after is the item map before with the moved lines appended
MovedInto(before, after, moved) ==
    /\ DOMAIN after = DOMAIN before \cup DOMAIN moved
    /\ \A i \in DOMAIN after :
            after[i].customizations = LinesOf(before, i) \o LinesOf(moved, i)

\* what the destination commit of a partial path may do to the orders: from
\* the orders before it to the orders after it, under the body handed over
IsolatedCommit(before, after, body) ==
    LET dest      == TableOrders(before, body.restaurantId, body.tableId)
        unprinted == {o \in dest : ~before[o].printStatus}
        new       == DOMAIN after \ DOMAIN before
        kept(S)   == \A o \in S : o \in DOMAIN after /\ after[o] = before[o]
        created   == /\ Cardinality(new) = 1
                     /\ \A n \in new :
                            /\ after[n].items = body.items
                            /\ after[n].tableId = body.tableId
                            /\ after[n].restaurantId = body.restaurantId
                     /\ kept(DOMAIN before)
    IN IF dest # {} /\ unprinted = {}
       THEN body.forceNewOrder /\ created
       ELSE IF unprinted # {}
       THEN LET oldest == CHOOSE o \in unprinted :
                            \A p \in unprinted : before[o].createdAt <= before[p].createdAt
            IN /\ ~body.forceNewOrder
               /\ new = {}
               /\ MovedInto(before[oldest].items, after[oldest].items, body.items)
               /\ kept(DOMAIN before \ {oldest})
       ELSE ~body.forceNewOrder /\ created

\* C7: in the partial paths of moveItems and moveKOT, moved items go into a
\* newly created order row, asked for with forceNewOrder, when the
\* destination table has an order and all its orders are printed, and no
\* printed order changes; they are merged into the oldest non-printed order
\* of the destination when there is one; a new order is created when the
\* destination has no order.  (A move of no item is left aside.)
C7_PrintedTableIsolation ==
    /\ (last.op = "moveItems" /\ last.path = "partial"
            /\ DOMAIN last.trace.itemsForNewTable # {})
        => /\ last.trace.body.items = last.trace.itemsForNewTable
           /\ last.trace.body.tableId = last.data.newTableId
           /\ IsolatedCommit(last.trace.afterSource.orders, db.orders,
                             last.trace.body)
    /\ (last.op = "moveKOT" /\ last.path = "partial"
            /\ DOMAIN last.trace.itemsToPrint # {})
        => /\ last.trace.body.items = last.trace.itemsToPrint
           /\ last.trace.body.tableId = last.data.newTableId
           /\ IsolatedCommit(pre.orders, last.trace.beforeSource.orders,
                             last.trace.body)

\* a partial moveItems to a table with two orders, the older printed and
\* the younger not, or a table whose only order is printed
C7_Witness ==
    /\ last.op = "moveItems" /\ last.path = "partial"
    /\ last.data.oldTableId # last.data.newTableId
    /\ \E o \in TableOrders(pre.orders, last.data.restaurantId, last.data.newTableId) :
            pre.orders[o].printStatus
    /\ last.trace.body.forceNewOrder
    /\ DOMAIN db.orders # DOMAIN last.trace.afterSource.orders

\* C8: a moveTable that finds an order on the source table and only printed
\* orders, at least one, on the destination table changes nothing of the
\* orders but the tableId of one source order, which becomes the
\* destination table: no order is merged into, changed otherwise or deleted.
C8_PrintedDestRelabel ==
    LET dest == TableOrders(pre.orders, last.data.restaurantId, last.data.newTableId)
        src  == TableOrders(pre.orders, last.data.restaurantId, last.data.oldTableId)
    IN (/\ last.op = "moveTable" /\ last.kind = "return"
        /\ dest # {} /\ src # {}
        /\ \A o \in dest : pre.orders[o].printStatus)
        => \E s \in src :
            db.orders = [pre.orders EXCEPT ![s].tableId = last.data.newTableId]

\* a moveTable between two tables that relabelled a source order holding
\* items the printed destination order holds too
C8_Witness ==
    LET dest == TableOrders(pre.orders, last.data.restaurantId, last.data.newTableId)
        src  == TableOrders(pre.orders, last.data.restaurantId, last.data.oldTableId)
    IN /\ last.op = "moveTable" /\ last.kind = "return"
       /\ last.data.oldTableId # last.data.newTableId
       /\ dest # {} /\ src # {}
       /\ \A o \in dest : pre.orders[o].printStatus
       /\ \E o \in dest : \E s \in src :
            /\ DOMAIN pre.orders[o].items \cap DOMAIN pre.orders[s].items # {}
            /\ db.orders[s].tableId = last.data.newTableId
       /\ db.orders # pre.orders

\* the non-empty strings of a list joined by a newline
JoinedNonEmpty(a, b) ==
    IF a = <<>> THEN b
    ELSE IF b = <<>> THEN a
    ELSE a \o <<"\n">> \o b

\* the destination order a moveTable merges into: the oldest order of the
\* destination table that is not printed
MergeTarget(orders, data) ==
    LET unprinted == {o \in TableOrders(orders, data.restaurantId, data.newTableId) :
                        ~orders[o].printStatus}
    IN CHOOSE o \in unprinted :
            \A p \in unprinted : orders[o].createdAt <= orders[p].createdAt

\* moveTable finds orders on both tables, one of the destination not
\* printed, and picks a source order other than the destination target
MergeCase ==
    /\ last.op = "moveTable" /\ last.kind = "return"
    /\ last.trace.srcPick \in
            TableOrders(pre.orders, last.data.restaurantId, last.data.oldTableId)
    /\ \E o \in TableOrders(pre.orders, last.data.restaurantId, last.data.newTableId) :
            ~pre.orders[o].printStatus
    /\ last.trace.srcPick # MergeTarget(pre.orders, last.data)

\* C9: after a moveTable merge of distinct source and destination orders the
\* destination order's item map holds every item id of either order, an item
\* of both with the destination's lines followed by the source's, its
\* instructions are the non-empty instructions joined by a newline, every
\* active ticket and every delivery record of the source order references
\* the destination order, and the source order no longer exists.
C9_MergeResult ==
    MergeCase =>
        LET s == last.trace.srcPick
            t == MergeTarget(pre.orders, last.data)
        IN /\ t \in DOMAIN db.orders
           /\ MovedInto(pre.orders[t].items, db.orders[t].items, pre.orders[s].items)
           /\ \A i \in DOMAIN pre.orders[s].items \ DOMAIN pre.orders[t].items :
                db.orders[t].items[i] = pre.orders[s].items[i]
           /\ \A i \in DOMAIN pre.orders[t].items \ DOMAIN pre.orders[s].items :
                db.orders[t].items[i] = pre.orders[t].items[i]
           /\ db.orders[t].instructions
                = JoinedNonEmpty(pre.orders[t].instructions, pre.orders[s].instructions)
           /\ \A n \in DOMAIN pre.tickets :
                (/\ pre.tickets[n].orderId = s
                 /\ pre.tickets[n].restaurantId = last.data.restaurantId
                 /\ pre.tickets[n].active)
                    => n \in DOMAIN db.tickets /\ db.tickets[n].orderId = t
           /\ \A x \in DOMAIN pre.deliveries :
                pre.deliveries[x].orderId = s
                    => x \in DOMAIN db.deliveries /\ db.deliveries[x].orderId = t
           /\ s \notin DOMAIN db.orders

\* a merge of two orders that share an item and both carry instructions,
\* the source order with two active tickets
C9_Witness ==
    /\ MergeCase
    /\ LET s == last.trace.srcPick
           t == MergeTarget(pre.orders, last.data)
       IN /\ DOMAIN pre.orders[s].items \cap DOMAIN pre.orders[t].items # {}
          /\ pre.orders[s].instructions # <<>>
          /\ pre.orders[t].instructions # <<>>
          /\ Cardinality({n \in DOMAIN pre.tickets :
                pre.tickets[n].orderId = s /\ pre.tickets[n].active}) > 1
          /\ s \notin DOMAIN db.orders

\* C10: after a successful moveTable with oldTableId different from
\* newTableId no order of the restaurant still has tableId = oldTableId.
C10_AllOrdersMoved ==
    (/\ last.op = "moveTable" /\ last.kind = "return"
     /\ last.data.oldTableId # last.data.newTableId)
        => TableOrders(db.orders, last.data.restaurantId, last.data.oldTableId) = {}

\* the tokens of an assigned-tables array
Tokens(assigned) == {assigned[i] : i \in 1..Len(assigned)}

\* the rows of a relation that satisfy P
RowsWhere(rel, P(_)) == {x \in DOMAIN rel : P(rel[x])}

\* a moveTable between two different tables that returned
MovedTable ==
    /\ last.op = "moveTable" /\ last.kind = "return"
    /\ last.data.oldTableId # last.data.newTableId

\* C11: a successful moveTable with oldTableId different from newTableId
\* leaves, for the restaurant, no active ticket, no table OTP, no active
\* discount and no active dynamic offer of the given order on oldTableId,
\* and no assigned-tables array that contains oldTableId or a token twice;
\* the counts returned for OTPs, discounts, offers and staff are the rows
\* that matched before the call, and ordersUpdated is the sum of the five
\* counts.
C11_SatellitePostcondition ==
    MovedTable =>
        LET r   == last.data.restaurantId
            old == last.data.oldTableId
            v   == last.value
        IN /\ RowsWhere(db.tickets, LAMBDA t :
                t.restaurantId = r /\ t.tableNumber = old /\ t.active) = {}
           /\ RowsWhere(db.otps, LAMBDA t :
                t.restaurantId = r /\ t.tableId = old) = {}
           /\ RowsWhere(db.discounts, LAMBDA t :
                t.restaurantId = r /\ t.tableNumber = old /\ t.isActive) = {}
           /\ RowsWhere(db.offers, LAMBDA t :
                /\ t.restaurantId = r /\ t.orderId = last.data.orderId
                /\ t.tableId = old /\ t.active) = {}
           /\ \A c \in DOMAIN db.captains :
                db.captains[c].restaurantId = r
                    => /\ old \notin Tokens(db.captains[c].assignedTables)
                       /\ Cardinality(Tokens(db.captains[c].assignedTables))
                            = Len(db.captains[c].assignedTables)
                       /\ Tokens(db.captains[c].assignedTables)
                            = (Tokens(pre.captains[c].assignedTables) \ {old})
                                \cup (IF old \in Tokens(pre.captains[c].assignedTables)
                                      THEN {last.data.newTableId} ELSE {})
           /\ v.otpUpdated = Cardinality(RowsWhere(pre.otps, LAMBDA t :
                t.restaurantId = r /\ t.tableId = old))
           /\ v.discountUpdated = Cardinality(RowsWhere(pre.discounts, LAMBDA t :
                t.restaurantId = r /\ t.tableNumber = old /\ t.isActive))
           /\ v.dynamicOffersUpdated = Cardinality(RowsWhere(pre.offers, LAMBDA t :
                /\ t.restaurantId = r /\ t.orderId = last.data.orderId
                /\ t.tableId = old /\ t.active))
           /\ v.captainsUpdated = Cardinality(RowsWhere(pre.captains, LAMBDA t :
                t.restaurantId = r /\ old \in Tokens(t.assignedTables)))
           /\ v.notificationsUpdated <= Cardinality(RowsWhere(pre.tickets, LAMBDA t :
                t.restaurantId = r /\ t.tableNumber = old /\ t.active))
           /\ v.ordersUpdated = v.notificationsUpdated + v.otpUpdated
                + v.discountUpdated + v.dynamicOffersUpdated + v.captainsUpdated

\* a merging moveTable that moved tickets and rewrote an assigned-tables
\* array holding both table tokens into one holding the new token once
C11_Witness ==
    /\ MovedTable /\ last.path = "merge"
    /\ last.value.notificationsUpdated > 0
    /\ \E c \in DOMAIN pre.captains :
        /\ Tokens(pre.captains[c].assignedTables)
                = {last.data.oldTableId, last.data.newTableId}
        /\ db.captains[c].assignedTables = <<last.data.newTableId>>

\* the second of two equal moveTable calls matched no satellite row and
\* left the four satellite relations other than the tickets as they were
RerunMatchedNothing ==
    /\ last.kind = "return"
    /\ last.value.notificationsUpdated = 0 /\ last.value.otpUpdated = 0
    /\ last.value.discountUpdated = 0 /\ last.value.dynamicOffersUpdated = 0
    /\ last.value.captainsUpdated = 0 /\ last.value.ordersUpdated = 0
    /\ db.otps = pre.otps /\ db.discounts = pre.discounts
    /\ db.offers = pre.offers /\ db.captains = pre.captains

ShowsNothing(t) ==
    \/ ~t.hasData
    \/ \A i \in DOMAIN t.data :
            \A k \in 1..Len(t.data[i].customizations) :
                t.data[i].customizations[k].qty <= 0

InvalidItemsRequest(d, data) ==
    \/ data.orderId \notin DOMAIN d.orders
    \/ d.orders[data.orderId].restaurantId # data.restaurantId
    \/ d.orders[data.orderId].tableId # data.oldTableId
    \/ \E i \in 1..Len(data.items) :
        \/ data.items[i].itemId \notin DOMAIN d.orders[data.orderId].items
        \/ data.items[i].quantity < 1

\* C14: moveTable called without oldTableId, newTableId or restaurantId,
\* and moveItems called for an order that is not on oldTableId, with an item
\* the order does not hold or with a quantity below 1, fail with an error
\* and leave every stored row unchanged.
C14_ValidationBeforeMutation ==
    (\/ /\ last.op = "moveTable"
        /\ NoId \in {last.data.oldTableId, last.data.newTableId,
                     last.data.restaurantId}
     \/ last.op = "moveItems" /\ InvalidItemsRequest(pre, last.data))
        => /\ last.kind = "throw"
           /\ last.value.error # ""
           /\ db = pre

\* a moveItems whose first request is valid and whose second asks for a
\* quantity below 1 of an item the order holds
C14_Witness ==
    /\ last.op = "moveItems" /\ last.kind = "throw"
    /\ Len(last.data.items) = 2
    /\ \A i \in 1..2 : last.data.items[i].itemId
                            \in DOMAIN pre.orders[last.data.orderId].items
    /\ last.data.items[1].quantity >= 1
    /\ last.data.items[2].quantity < 1
    /\ db = pre

\* C15: when oldTableId, newTableId, restaurantId or orderId is missing, or
\* notificationIds is not an array, moveKOT does not throw in either call
\* shape: the direct shape returns success = false with an error text, the
\* request-adapted shape sends a 400 response, and the call ends before its
\* first query, with no stored row changed.
C15_MoveKotValidation ==
    (/\ last.op = "moveKOT"
     /\ \/ NoId \in {last.data.oldTableId, last.data.newTableId,
                     last.data.restaurantId}
        \/ last.data.orderId = NoOrder
        \/ ~last.data.isArray)
        => /\ last.kind = "return"
           /\ last.path = "invalid"
           /\ db = pre
           /\ IF last.data.express
              THEN last.trace.responses = <<400>>
              ELSE /\ last.trace.responses = <<>>
                   /\ last.value.success = FALSE
                   /\ last.value.error # ""

\* a request-adapted call without orderId and a direct call whose
\* notificationIds is not an array are both the case; the first is named
C15_Witness ==
    /\ last.op = "moveKOT" /\ last.data.express
    /\ last.data.orderId = NoOrder
    /\ last.kind = "return" /\ last.trace.responses = <<400>>
    /\ db = pre /\ db.tickets # EmptyMap

\* C16: when a storage query fails during moveKOT's own steps, the failure
\* is caught and surfaced as that failure: the request-adapted shape sends
\* a 500 response, and the direct shape signals a failure (a rejection or a
\* failure value) that carries the storage error's message.
C16_StorageFailureSurfaced ==
    (last.op = "moveKOT" /\ last.path = "failed")
        => IF last.data.express
           THEN last.trace.responses = <<500>>
           ELSE last.value.error = last.trace.err

\* the quantity of an item over the orders of a table
TableItemQty(d, tableId, itemId) ==
    SetSum({o \in DOMAIN d.orders : /\ d.orders[o].tableId = tableId
                                    /\ itemId \in DOMAIN d.orders[o].items},
           [o \in DOMAIN d.orders |->
                IF itemId \in DOMAIN d.orders[o].items
                THEN SumQty(d.orders[o].items[itemId].customizations) ELSE 0])

\* both calls are over, they moved different items, and each read the
\* source order before the other wrote it
BothReadFirst ==
    /\ last.op = "moveItems||moveItems"
    /\ \A p \in Calls : last.calls[p].pc = "done" /\ ~last.calls[p].late
    /\ last.calls[1].data.items[1].itemId # last.calls[2].data.items[1].itemId

\* C17: two moveItems calls on one source order, for different items, are
\* not kept apart: when both read the source item map before either writes
\* it, the later write of the source order puts back what the earlier one
\* took off (the earlier call's item is on the source order as before both
\* calls), while the destination table receives the moved quantity of both.
C17_LostUpdate ==
    BothReadFirst =>
        LET early == last.calls[last.writes[1]]
            later == last.calls[last.writes[2]]
            item(c) == c.data.items[1].itemId
            moved(c) == SumQty(ItemsForNewTable(pre.orders[1].items,
                                                c.data.items)[item(c)].customizations)
        IN /\ 1 \in DOMAIN db.orders
           /\ db.orders[1].items = RemainingItems(pre.orders[1].items, later.data.items)
           /\ db.orders[1].items[item(early)] = pre.orders[1].items[item(early)]
           /\ \A p \in Calls :
                TableItemQty(db, "T2", item(last.calls[p]))
                    = TableItemQty(pre, "T2", item(last.calls[p])) + moved(last.calls[p])

\* both calls read, then both wrote, then both upserted
C17_Witness ==
    /\ BothReadFirst
    /\ last.writes = <<1, 2>>
    /\ db.orders[1].items[last.calls[1].data.items[1].itemId]
            = pre.orders[1].items[last.calls[1].data.items[1].itemId]
    /\ TableItemQty(db, "T2", last.calls[1].data.items[1].itemId)
            > TableItemQty(pre, "T2", last.calls[1].data.items[1].itemId)

\* C18: no rollback.  A call one of whose statements fails is rejected and
\* the statements before it stay committed.  After a moveTable merge that
\* fails once the destination order is written and before the source order
\* is deleted, both orders are stored, the source order as it was and the
\* destination order with the merged items: the source's items are on both
\* (and past the ticket UPDATE the source order's active tickets name the
\* destination order).  After a moveItems that fails once the source order
\* is written and before the upsert, the source order is reduced or gone
\* and no other order has changed: the moved items are on neither.
C18_NoRollback ==
    (last.op # "none" /\ last.path = "failed")
        => /\ last.kind = "throw"
           /\ (/\ last.op = "moveTable"
               /\ last.trace.failedAt >= 2
               /\ last.trace.srcPick # MergeTarget(pre.orders, last.data))
                => LET src  == last.trace.srcPick
                       dest == MergeTarget(pre.orders, last.data)
                   IN /\ src \in DOMAIN db.orders
                      /\ db.orders[src] = pre.orders[src]
                      /\ db.orders[dest].items
                            = MergedItems(pre.orders[dest].items, pre.orders[src].items)
                      /\ \A i \in DOMAIN pre.orders[src].items :
                            i \in DOMAIN db.orders[dest].items
                      /\ last.trace.failedAt >= 3 =>
                            \A n \in DOMAIN pre.tickets :
                                (pre.tickets[n].orderId = src /\ pre.tickets[n].active)
                                    => db.tickets[n].orderId = dest
           /\ (last.op = "moveItems" /\ last.trace.failedAt = 4)
                => LET id == last.data.orderId
                       remaining == RemainingItems(pre.orders[id].items, last.data.items)
                   IN /\ IF DOMAIN remaining = {}
                         THEN id \notin DOMAIN db.orders
                         ELSE db.orders[id].items = remaining
                      /\ DOMAIN db.orders \subseteq DOMAIN pre.orders
                      /\ \A o \in DOMAIN db.orders \ {id} : db.orders[o] = pre.orders[o]

\* a merge that failed at the source order's DELETE, with a ticket of the
\* source order already pointed at the destination order
C18_Witness ==
    /\ last.op = "moveTable" /\ last.path = "failed" /\ last.trace.failedAt = 4
    /\ last.trace.srcPick # MergeTarget(pre.orders, last.data)
    /\ db.orders[last.trace.srcPick].items # EmptyMap
    /\ \E n \in DOMAIN db.tickets :
        /\ pre.tickets[n].orderId = last.trace.srcPick
        /\ db.tickets[n].orderId = MergeTarget(pre.orders, last.data)

\* the qty of the basic line a ticket shows for an item, 0 when it shows none
BasicQty(t, itemId) ==
    IF t.hasData /\ itemId \in DOMAIN t.data
            /\ BasicIndex(t.data[itemId].customizations) > 0
    THEN t.data[itemId].customizations[BasicIndex(t.data[itemId].customizations)].qty
    ELSE 0

\* no ticket of the order that is still stored shows a basic line below zero
NoNegativeTicketLine ==
    \A n \in ActiveKots(pre, last.data.restaurantId, last.data.orderId)
                \cap DOMAIN db.tickets :
        \A i \in ItemIds : BasicQty(db.tickets[n], i) >= 0

\* what the ticket UPDATEs of a request entry subtract in all is the
\* smaller of its quantity and what the order's active tickets show
TicketTotalSubtracted ==
    \A i \in NamedOnce(last.data.items) :
        LET r == last.data.items[i]
            kots == ActiveKots(pre, last.data.restaurantId, last.data.orderId)
        IN SumBy(SelectSeq(last.trace.ticketUpdates, LAMBDA u : u.itemId = r.itemId))
            = Min2(r.quantity,
                   SetSum(kots, [n \in kots |-> BasicQty(pre.tickets[n], r.itemId)]))

\* C19: in the partial path of moveItems, for any request list, every
\* ticket's basic line is reduced by no more than its current qty, so no
\* ticket's basic-line qty ends below zero, and the total subtracted for an
\* item is min(quantity, the sum of the item's basic-line qty over the
\* order's active tickets).
C19_TicketPropagation ==
    (last.op = "moveItems" /\ last.path = "partial")
        => NoNegativeTicketLine /\ TicketTotalSubtracted

\* what the stored ledger rows of an item under the given tickets lost
Drained(orderId, itemId, ticketIds) ==
    OutstandingQty(pre, orderId, itemId, ticketIds)
        - SetSum({x \in OutstandingRows(pre, orderId) :
                    /\ pre.deliveries[x].itemId = itemId
                    /\ pre.deliveries[x].notificationId \in ticketIds},
                 [x \in DOMAIN db.deliveries |-> db.deliveries[x].details.qty])

LinesLess(lines, c) ==
    LET same == {k \in 1..Len(lines) : /\ lines[k].variation = c.variation
                                       /\ lines[k].addons = c.addons}
        by   == IF c.qtyChange # <<>> THEN c.qtyChange[1] ELSE c.qty
    IN IF same = {} THEN lines
       ELSE LET i == CHOOSE k \in same : \A j \in same : k <= j
            IN IF lines[i].qty - by <= 0
               THEN [j \in 1..(Len(lines) - 1) |->
                        IF j < i THEN lines[j] ELSE lines[j + 1]]
               ELSE [lines EXCEPT ![i].qty = @ - by]

RECURSIVE ItemsLess(_, _, _)
\* an item map once the first n of the ledger rows are taken off, one by one
ItemsLess(items, rows, n) ==
    IF n = 0 THEN items
    ELSE LET m == ItemsLess(items, rows, n - 1)
             x == pre.deliveries[rows[n]]
         IN IF x.itemId \notin DOMAIN m THEN m
            ELSE IF LinesLess(m[x.itemId].customizations, x.details) = <<>>
            THEN [i \in DOMAIN m \ {x.itemId} |-> m[i]]
            ELSE [m EXCEPT ![x.itemId] =
                    [customizations |-> LinesLess(m[x.itemId].customizations, x.details),
                     totalQty |-> SumQty(LinesLess(m[x.itemId].customizations,
                                                   x.details))]]

\* a moveKOT that took its own steps 3 to 6 and returned
KotPartialDone ==
    last.op = "moveKOT" /\ last.path = "partial" /\ last.kind = "return"

\* C21: in moveKOT's partial path the source order is reduced row by row:
\* for each ledger row recovered from the named tickets the first line of
\* the same item with equal variation and addons loses the row's qtyChange
\* if present, else its qty; a line reaching qty <= 0 is dropped, an item
\* left without lines is removed, a surviving touched item's totalQty is the
\* sum of its lines' qty, and items without a recovered row are unchanged.
C21_SourceReduction ==
    KotPartialDone =>
        LET id     == last.data.orderId
            before == last.trace.beforeSource.orders[id].items
            after  == db.orders[id].items
            rows   == last.trace.rows
            touched == {pre.deliveries[rows[k]].itemId : k \in 1..Len(rows)}
        IN /\ after = ItemsLess(before, rows, Len(rows))
           /\ \A i \in DOMAIN before \ touched :
                i \in DOMAIN after /\ after[i] = before[i]
           /\ \A i \in DOMAIN after \cap touched :
                /\ after[i].customizations # <<>>
                /\ after[i].totalQty = SumQty(after[i].customizations)
                /\ \A k \in 1..Len(after[i].customizations) :
                        after[i].customizations[k].qty > 0
           /\ DOMAIN after \subseteq DOMAIN before

\* a row that carries qty 2 and qtyChange 1 takes 1 off a line of qty 2,
\* which survives, and the item's totalQty follows
C21_Witness ==
    /\ KotPartialDone
    /\ Len(last.trace.rows) = 1
    /\ pre.deliveries[last.trace.rows[1]].itemId = "A"
    /\ pre.deliveries[last.trace.rows[1]].details.qty = 2
    /\ pre.deliveries[last.trace.rows[1]].details.qtyChange = <<1>>
    /\ pre.deliveries[last.trace.rows[1]].details.isBasic
    /\ pre.orders[1].items["A"].customizations[1].qty = 2
    /\ Len(pre.orders[1].items["A"].customizations) = 2
    /\ db.orders[1].items["A"].customizations[1].qty = 1
    /\ db.orders[1].items["A"].totalQty = pre.orders[1].items["A"].totalQty - 1

\* C22: a moveTable whose oldTableId equals its newTableId is harmless:
\* no order is deleted, and every order's items (no line duplicated) and
\* instructions are after the call what they were before it.
C22_SameTableHarmless ==
    (/\ last.op = "moveTable" /\ last.kind = "return"
     /\ last.data.oldTableId = last.data.newTableId)
        => /\ DOMAIN pre.orders \subseteq DOMAIN db.orders
           /\ \A o \in DOMAIN pre.orders :
                /\ db.orders[o].items = pre.orders[o].items
                /\ db.orders[o].instructions = pre.orders[o].instructions

\* every active ticket and every delivery record names a stored order
RefersToOrders(d) ==
    /\ \A n \in DOMAIN d.tickets :
            d.tickets[n].active => d.tickets[n].orderId \in DOMAIN d.orders
    /\ \A x \in DOMAIN d.deliveries :
            d.deliveries[x].orderId \in DOMAIN d.orders

\* C23: after a moveTable, moveItems or moveKOT that completed
\* successfully, every active ticket and every delivery record references
\* an order that still exists (given they did before the call).
C23_ReferentialIntegrity ==
    (/\ last.op \in {"moveTable", "moveItems", "moveKOT"}
     /\ last.kind = "return" /\ last.path # "invalid"
     /\ RefersToOrders(pre))
        => RefersToOrders(db)

\* ticket and ledger agree on an item: every active ticket of the order
\* shows on its basic line what its outstanding delivery records hold
TicketsAgreeWithLedger(d, data, itemId) ==
    \A n \in ActiveKots(d, data.restaurantId, data.orderId) :
        BasicQty(d.tickets[n], itemId)
            = OutstandingQty(d, data.orderId, itemId, {n})

\* C24: in the partial path of moveItems, for every requested item and
\* every active ticket of the order, what is subtracted from the ticket's
\* basic line equals what is drained from the ticket's delivery records of
\* the item (given that ticket and ledger agreed before the move).
C24_TicketLedgerAgreement ==
    (last.op = "moveItems" /\ last.path = "partial")
        => \A i \in NamedOnce(last.data.items) :
            LET itemId == last.data.items[i].itemId
            IN TicketsAgreeWithLedger(pre, last.data, itemId)
                => \A n \in ActiveKots(pre, last.data.restaurantId, last.data.orderId) :
                    SumBy(SelectSeq(last.trace.ticketUpdates,
                                    LAMBDA u : u.itemId = itemId /\ u.notificationId = n))
                        = Drained(last.data.orderId, itemId, {n})

\* the sum of the line qty of an item of an item map, 0 when it is absent
QtyIn(items, itemId) ==
    IF itemId \in DOMAIN items THEN SumQty(items[itemId].customizations) ELSE 0

\* C25: in moveKOT's partial path, for every item, the quantity handed to
\* the destination (the sum of qty over the item's lines in the snapshot
\* built from the ledger rows) equals the quantity removed from the source
\* order's item map for that item.
C25_KotConservation ==
    KotPartialDone =>
        \A i \in ItemIds :
            QtyIn(last.trace.itemsToPrint, i)
                = QtyIn(last.trace.beforeSource.orders[last.data.orderId].items, i)
                    - QtyIn(db.orders[last.data.orderId].items, i)

\* C26: moveKOT's partial path is confined to the order given by orderId:
\* no ticket and no delivery record of another order is deleted, and the
\* rows read for the destination are delivery records of that order only,
\* also when notificationIds names a ticket of another order.
C26_KotConfinedToOrder ==
    KotPartialDone =>
        /\ \A n \in DOMAIN pre.tickets :
                pre.tickets[n].orderId # last.data.orderId
                    => n \in DOMAIN db.tickets /\ db.tickets[n] = pre.tickets[n]
        /\ \A x \in DOMAIN pre.deliveries :
                pre.deliveries[x].orderId # last.data.orderId
                    => x \in DOMAIN db.deliveries
        /\ \A k \in 1..Len(last.trace.rows) :
                pre.deliveries[last.trace.rows[k]].orderId = last.data.orderId

\* C27: in the request-adapted call shape every moveKOT call that finishes
\* has sent exactly one response through the response object, and leaves
\* stored what the direct shape leaves for the same inputs.
C27_OneResponse ==
    (last.op = "moveKOT" /\ last.data.express)
        => /\ Len(last.trace.responses) = 1
           /\ \E ch \in MoveKotChoices(pre, [last.data EXCEPT !.express = FALSE]) :
                db = MoveKOT(pre, [last.data EXCEPT !.express = FALSE], ch).db

====
